---- MODULE Spec2Model ----
(***************************************************************************)
(* Model of the driver package of opencaps/pif: the translation engine     *)
(* (src/driver/translation.go): value coercion (convert), the formula      *)
(* compiler (Translation.init) and the rule engine (Translation.Translate, *)
(* translateMap, translateCoeff); the assembly of a driver item from a     *)
(* hardware descriptor (src/driver/driverItem.go, initDriverItem); and the *)
(* driver registry (DriversManager.GetDriverItem) called by concurrent     *)
(* goroutines.  The second half models package dbusconn: the registries of *)
(* bridges, devices and items behind their mutexes, the readiness of a     *)
(* protocol and of the module, the setters of a device with the timer of   *)
(* its reachability, and the write of the LogLevel property.               *)
(*                                                                         *)
(* Go strings are sequences of one-character strings.  A Go interface{}    *)
(* value is a record [t, n, d, s]: t is the dynamic type, n/d a rational   *)
(* (the numeric payload; d = 0 encodes the IEEE specials: 1/0 = +Inf,      *)
(* -1/0 = -Inf, 0/0 = NaN), s the string payload.  Every float of the      *)
(* model that takes part in arithmetic is a small dyadic rational, which   *)
(* float64 represents and multiplies exactly.                              *)
(***************************************************************************)
EXTENDS Integers, Sequences, FiniteSets, TLC

VARIABLES t, formula, formulaExit, forceToString, op, data, looked, result,
          panicked,
          hd, driver, ok,
          items, mutex, pc, frame, built, stored,
          protoObjs, nprotos, Bridges, rootCallbacks, deviceObjs, ndevs, module, proc,
          dev, props, timer, cb, call, logLevel, stats

\* the descriptor given to initDriverItem and what it returns
itemVars == <<hd, driver, ok>>

\* DriversManager (items and its Mutex), the goroutines calling it (where
\* each one is and its locals), and how many times each (id, version) was
\* assembled and stored
managerVars == <<items, mutex, pc, frame, built, stored>>

\* dbusconn: the Protocol objects (0 is the root protocol, the others were
\* made by AddBridge), RootProto (Bridges of its Dbus, Callbacks), the Device
\* objects, the Module, and the goroutines running the D-Bus methods
protoVars == <<protoObjs, nprotos, Bridges, rootCallbacks, deviceObjs, ndevs, module, proc>>

\* dbusconn: one Device seen through its setters (its fields, its exported
\* properties, its timer and the goroutine of the timer's callback), the call
\* in progress, the level of the logger, and what the timer did so far
propVars == <<dev, props, timer, cb, call, logLevel, stats>>

dbusVars == <<protoVars, propVars>>

vars == <<t, formula, formulaExit, forceToString, op, data, looked, result,
          panicked, itemVars, managerVars, dbusVars>>

-----------------------------------------------------------------------------
(* Rationals *)

Abs(x) == IF x < 0 THEN -x ELSE x

RECURSIVE GCD(_, _)
GCD(a, b) == IF b = 0 THEN a ELSE GCD(b, a % b)

RECURSIVE Pow(_, _)
Pow(b, k) == IF k = 0 THEN 1 ELSE b * Pow(b, k - 1)

\* the rational n/d (d > 0) in lowest terms
Norm(n, d) ==
    LET g == GCD(Abs(n), d)
    IN  [n |-> n \div g, d |-> d \div g]

-----------------------------------------------------------------------------
(* Go values *)

Nil == [t |-> "nil", n |-> 0, d |-> 1, s |-> <<>>]

F64(n, d) == LET r == Norm(n, d) IN [t |-> "float64", n |-> r.n, d |-> r.d, s |-> <<>>]

F32(n, d) == LET r == Norm(n, d) IN [t |-> "float32", n |-> r.n, d |-> r.d, s |-> <<>>]

GoInt64(i) == [t |-> "int64", n |-> i, d |-> 1, s |-> <<>>]

GoInt(i) == [t |-> "int", n |-> i, d |-> 1, s |-> <<>>]

Bool(b) == [t |-> "bool", n |-> IF b THEN 1 ELSE 0, d |-> 1, s |-> <<>>]

Str(s) == [t |-> "string", n |-> 0, d |-> 1, s |-> s]

\* a value of a type the engine knows nothing about (a []byte frame)
Bytes(s) == [t |-> "[]uint8", n |-> 0, d |-> 1, s |-> s]

PosInf == [t |-> "float64", n |-> 1, d |-> 0, s |-> <<>>]

NegInf == [t |-> "float64", n |-> -1, d |-> 0, s |-> <<>>]

NaN == [t |-> "float64", n |-> 0, d |-> 0, s |-> <<>>]

IsNaN(v) == v.t \in {"float64", "float32"} /\ v.d = 0 /\ v.n = 0

\* Go's == on two interface values whose dynamic types are comparable:
\* identical dynamic type and equal value; NaN equals nothing.
GoEq(a, b) == a = b /\ ~IsNaN(a)

-----------------------------------------------------------------------------
(* strconv.ParseFloat(data, 64) and strconv.ParseBool(data) *)

Upper == <<"A", "B", "C", "D", "E", "F", "G", "H", "I", "J", "K", "L", "M",
           "N", "O", "P", "Q", "R", "S", "T", "U", "V", "W", "X", "Y", "Z">>

LowerL == <<"a", "b", "c", "d", "e", "f", "g", "h", "i", "j", "k", "l", "m",
            "n", "o", "p", "q", "r", "s", "t", "u", "v", "w", "x", "y", "z">>

Lower(c) ==
    IF \E i \in 1..Len(Upper) : Upper[i] = c
    THEN LowerL[CHOOSE i \in 1..Len(Upper) : Upper[i] = c]
    ELSE c

LowerStr(s) == [i \in 1..Len(s) |-> Lower(s[i])]

HexDigits == <<"0", "1", "2", "3", "4", "5", "6", "7", "8", "9",
               "a", "b", "c", "d", "e", "f">>

\* the value of digit c in the base, or -1
DigitVal(c, base) ==
    IF \E i \in 1..base : HexDigits[i] = Lower(c)
    THEN (CHOOSE i \in 1..base : HexDigits[i] = Lower(c)) - 1
    ELSE -1

AllDigits(s, base) == \A i \in 1..Len(s) : DigitVal(s[i], base) >= 0

RECURSIVE DigitsVal(_, _)
DigitsVal(s, base) ==
    IF s = <<>> THEN 0
    ELSE DigitsVal(SubSeq(s, 1, Len(s) - 1), base) * base + DigitVal(s[Len(s)], base)

\* index of the first element of s that is in set cs, or 0
FirstIn(s, cs) ==
    IF \E i \in 1..Len(s) : s[i] \in cs
    THEN CHOOSE i \in 1..Len(s) : s[i] \in cs /\ \A j \in 1..(i - 1) : s[j] \notin cs
    ELSE 0

Drop(s, k) == SubSeq(s, k + 1, Len(s))

Take(s, k) == SubSeq(s, 1, k)

HasSign(s) == s # <<>> /\ s[1] \in {"+", "-"}

Unsigned(s) == IF HasSign(s) THEN Drop(s, 1) ELSE s

Failed == [ok |-> FALSE, n |-> 0, d |-> 1]

\* strconv's special(): [+-]inf, [+-]infinity, nan, in any letter case
Special(s) ==
    LET u == LowerStr(Unsigned(s))
        neg == HasSign(s) /\ s[1] = "-"
    IN  IF u = <<"i", "n", "f">> \/ u = <<"i", "n", "f", "i", "n", "i", "t", "y">>
        THEN [ok |-> TRUE, n |-> IF neg THEN -1 ELSE 1, d |-> 0]
        ELSE IF LowerStr(s) = <<"n", "a", "n">>
        THEN [ok |-> TRUE, n |-> 0, d |-> 0]
        ELSE Failed

\* strconv's readFloat() and the conversion of what it read: an optional sign,
\* an optional 0x prefix, digits with at most one '.', an exponent (e for
\* base 10, optional; p for base 16, mandatory) with an optional sign
ReadFloat(s) ==
    LET neg  == HasSign(s) /\ s[1] = "-"
        u    == Unsigned(s)
        hex  == Len(u) > 2 /\ u[1] = "0" /\ Lower(u[2]) = "x"
        base == IF hex THEN 16 ELSE 10
        body == IF hex THEN Drop(u, 2) ELSE u
        ePos == FirstIn(body, IF hex THEN {"p", "P"} ELSE {"e", "E"})
        mant == IF ePos = 0 THEN body ELSE Take(body, ePos - 1)
        expS == IF ePos = 0 THEN <<>> ELSE Drop(body, ePos)
        dot  == FirstIn(mant, {"."})
        ip   == IF dot = 0 THEN mant ELSE Take(mant, dot - 1)
        fp   == IF dot = 0 THEN <<>> ELSE Drop(mant, dot)
        eNeg == HasSign(expS) /\ expS[1] = "-"
        eDig == Unsigned(expS)
        okM  == AllDigits(ip, base) /\ AllDigits(fp, base) /\ Len(ip) + Len(fp) > 0
        okE  == IF ePos = 0 THEN ~hex ELSE eDig # <<>> /\ AllDigits(eDig, 10)
        m    == DigitsVal(ip \o fp, base)
        e    == (IF eNeg THEN -1 ELSE 1) * DigitsVal(eDig, 10)
        k    == IF hex THEN e - 4 * Len(fp) ELSE e - Len(fp)
        b    == IF hex THEN 2 ELSE 10
        sm   == IF neg THEN -m ELSE m
        r    == Norm(sm, Pow(b, -k))
    IN  IF ~(okM /\ okE) THEN Failed
        ELSE IF k >= 0 THEN [ok |-> TRUE, n |-> sm * Pow(b, k), d |-> 1]
        ELSE [ok |-> TRUE, n |-> r.n, d |-> r.d]

\* [ok |-> err == nil, n/d |-> the float64]
ParseFloat(s) == LET sp == Special(s) IN IF sp.ok THEN sp ELSE ReadFloat(s)

TrueWords == {<<"1">>, <<"t">>, <<"T">>, <<"T", "R", "U", "E">>,
              <<"t", "r", "u", "e">>, <<"T", "r", "u", "e">>}

FalseWords == {<<"0">>, <<"f">>, <<"F">>, <<"F", "A", "L", "S", "E">>,
               <<"f", "a", "l", "s", "e">>, <<"F", "a", "l", "s", "e">>}

\* [ok |-> err == nil, b |-> the bool]
ParseBool(s) == [ok |-> s \in TrueWords \cup FalseWords, b |-> s \in TrueWords]

\* convert trying the boolean parser before the float parser
convert_BoolFirst(s) ==
    LET f == ParseFloat(s)
    IN  IF ParseBool(s).ok THEN Bool(ParseBool(s).b)
        ELSE IF f.ok THEN [t |-> "float64", n |-> f.n, d |-> f.d, s |-> <<>>]
        ELSE Str(s)

convert(s) ==
    LET f == ParseFloat(s)
        b == ParseBool(s)
    IN  IF f.ok THEN [t |-> "float64", n |-> f.n, d |-> f.d, s |-> <<>>]
        ELSE IF b.ok THEN Bool(b.b)
        ELSE Str(s)

-----------------------------------------------------------------------------
(* strings.ReplaceAll(s, c, "") and strings.Split(s, sep) for a one-character
   c and sep *)

RECURSIVE Remove(_, _)
Remove(s, c) ==
    IF s = <<>> THEN <<>>
    ELSE IF s[1] = c THEN Remove(Tail(s), c)
    ELSE <<s[1]>> \o Remove(Tail(s), c)

\* always yields at least one field: Split("", sep) = [""]
RECURSIVE Split(_, _)
Split(s, sep) ==
    LET i == FirstIn(s, {sep})
    IN  IF i = 0 THEN <<s>>
        ELSE <<Take(s, i - 1)>> \o Split(Drop(s, i), sep)

-----------------------------------------------------------------------------
(* Translation: Field, Map, A.  Map is the sequence of the map's entries
   [k, v] in insertion order; a nil map and an empty map are both <<>> (the
   code only takes len() of the map and ranges over it).  A is a rational. *)

One == [n |-> 1, d |-> 1]

Zero == [n |-> 0, d |-> 1]

Rat(n, d) == Norm(n, d)

\* the assignment adding an entry even when the key is already in the map
MapSet_AlwaysAppends(m, key, value) == Append(m, [k |-> key, v |-> value])

\* t.Map[key] = value
MapSet(m, key, value) ==
    IF \E i \in 1..Len(m) : GoEq(m[i].k, key)
    THEN [i \in 1..Len(m) |-> IF GoEq(m[i].k, key) THEN [k |-> m[i].k, v |-> value]
                              ELSE m[i]]
    ELSE Append(m, [k |-> key, v |-> value])

\* the iteration testing len(keyValue) < 2: a tuple of more than two fields is
\* stored by its first two
InsertTuple_AcceptsLongTuple(m, tupleRaw, forceToStr) ==
    LET keyValue == Split(Remove(Remove(tupleRaw, "("), ")"), ",")
    IN  IF Len(keyValue) < 2 THEN m
        ELSE MapSet(m, convert(keyValue[1]),
                    IF forceToStr THEN Str(keyValue[2]) ELSE convert(keyValue[2]))

\* the iteration coercing the value whatever forceToString is
InsertTuple_AlwaysCoerces(m, tupleRaw, forceToStr) ==
    LET keyValue == Split(Remove(Remove(tupleRaw, "("), ")"), ",")
    IN  IF Len(keyValue) # 2 THEN m
        ELSE MapSet(m, convert(keyValue[1]), convert(keyValue[2]))

\* the iteration stripping one leading '(' and one trailing ')' only
InsertTuple_StripsOuterParens(m, tupleRaw, forceToStr) ==
    LET a == IF tupleRaw # <<>> /\ Head(tupleRaw) = "(" THEN Tail(tupleRaw) ELSE tupleRaw
        tuple == IF a # <<>> /\ a[Len(a)] = ")" THEN SubSeq(a, 1, Len(a) - 1) ELSE a
        keyValue == Split(tuple, ",")
    IN  IF Len(keyValue) # 2 THEN m
        ELSE MapSet(m, convert(keyValue[1]),
                    IF forceToStr THEN Str(keyValue[2]) ELSE convert(keyValue[2]))

\* one iteration of the loop of init over the ';'-separated tuples
InsertTuple(m, tupleRaw, forceToStr) ==
    LET tuple == Remove(Remove(tupleRaw, "("), ")")
        keyValue == Split(tuple, ",")
    IN  IF Len(keyValue) # 2 THEN m
        ELSE MapSet(m, convert(keyValue[1]),
                    IF forceToStr THEN Str(keyValue[2]) ELSE convert(keyValue[2]))

RECURSIVE InsertTuples(_, _, _)
InsertTuples(m, tuples, forceToStr) ==
    IF tuples = <<>> THEN m
    ELSE InsertTuples(InsertTuple(m, Head(tuples), forceToStr), Tail(tuples), forceToStr)

\* init leaving the coefficient of a formula that declares no a at 0
init_UndeclaredAIsZero(tr, f, exit, forceToStr) ==
    IF ~exit THEN [tr EXCEPT !.A = One, !.Map = <<>>]
    ELSE [tr EXCEPT !.A = IF f.hasA THEN f.A ELSE Zero,
                    !.Map = IF f.Map = <<>> THEN <<>>
                            ELSE InsertTuples(<<>>, Split(f.Map, ";"), forceToStr)]

\* init without its first test: an absent formula is compiled like a present one
init_IgnoresFormulaExit(tr, f, exit, forceToStr) ==
    [tr EXCEPT !.A = IF f.hasA THEN f.A ELSE One,
               !.Map = IF f.Map = <<>> THEN <<>>
                       ELSE InsertTuples(<<>>, Split(f.Map, ";"), forceToStr)]

\* (t *Translation) init(formula, formulaExit, forceToString): the rule after
\* the call.  f is [Map, hasA, A]: hasA is formula.A != nil.
init(tr, f, exit, forceToStr) ==
    IF ~exit THEN [tr EXCEPT !.A = One, !.Map = <<>>]
    ELSE [tr EXCEPT !.A = IF f.hasA THEN f.A ELSE One,
                    !.Map = IF f.Map = <<>> THEN <<>>
                            ELSE InsertTuples(<<>>, Split(f.Map, ";"), forceToStr)]

-----------------------------------------------------------------------------
(* The rule engine *)

NumericTypes == {"float64", "float32", "int64", "int"}

\* the test of one entry without the int/float64 accommodation
KeyMatches_ExactOnly(key, d) == GoEq(key, d)

\* the test of one entry in the loop of translateMap, for a non-nil data
KeyMatches(key, d) ==
    \/ GoEq(key, d)
    \/ /\ d.t = "int"
       /\ key.t = "float64"
       /\ GoEq(key, F64(d.n, 1))

Returned(v) == [panic |-> FALSE, v |-> v]

Panic == [panic |-> TRUE, v |-> Nil]

\* translateMap returning nil, not data, when no entry matches
translateMap_MissYieldsNil(tr, d) ==
    IF Len(tr.Map) = 0 THEN {[panic |-> FALSE, v |-> d]}
    ELSE IF d.t = "nil" THEN {[panic |-> TRUE, v |-> Nil]}
    ELSE IF \E i \in 1..Len(tr.Map) : KeyMatches(tr.Map[i].k, d)
    THEN {[panic |-> FALSE, v |-> tr.Map[i].v] :
             i \in {j \in 1..Len(tr.Map) : KeyMatches(tr.Map[j].k, d)}}
    ELSE {[panic |-> FALSE, v |-> Nil]}

\* translateMap: the set of its possible outcomes (Go ranges over a map in an
\* unspecified order and returns at the first entry that matches).  With a nil
\* data no key equals data, and the first entry visited evaluates
\* reflect.TypeOf(nil).Kind(): a call on a nil reflect.Type, which panics.
translateMap(tr, d) ==
    IF Len(tr.Map) = 0 THEN {Returned(d)}
    ELSE IF d.t = "nil" THEN {Panic}
    ELSE IF \E i \in 1..Len(tr.Map) : KeyMatches(tr.Map[i].k, d)
    THEN {Returned(tr.Map[i].v) : i \in {j \in 1..Len(tr.Map) : KeyMatches(tr.Map[j].k, d)}}
    ELSE {Returned(d)}

\* int64(n/d): a conversion of a float to an integer discards the fraction
Trunc(n, d) == IF n >= 0 THEN n \div d ELSE -((-n) \div d)

\* translateCoeff converting every product to int64, whatever the coefficient
translateCoeff_AlwaysTruncates(tr, value) ==
    IF value.t \in {"float64", "float32", "int64", "int"}
    THEN GoInt64(Trunc(value.n * tr.A.n, value.d * tr.A.d))
    ELSE value

\* translateCoeff scaling a string that reads as a number
translateCoeff_ScalesNumericStrings(tr, value) ==
    IF value.t \in {"float64", "float32", "int64", "int"}
    THEN IF tr.A.n > tr.A.d
         THEN GoInt64(Trunc(value.n * tr.A.n, value.d * tr.A.d))
         ELSE F64(value.n * tr.A.n, value.d * tr.A.d)
    ELSE IF value.t = "string" /\ ReadFloat(value.s).ok
    THEN F64(ReadFloat(value.s).n * tr.A.n, ReadFloat(value.s).d * tr.A.d)
    ELSE value

\* translateCoeff, for finite values
translateCoeff(tr, value) ==
    IF value.t \in NumericTypes
    THEN IF tr.A.n > tr.A.d
         THEN GoInt64(Trunc(value.n * tr.A.n, value.d * tr.A.d))
         ELSE F64(value.n * tr.A.n, value.d * tr.A.d)
    ELSE value

\* Translate scaling the input first and looking the product up
Translate_ScaleFirst(tr, d) ==
    {[panic  |-> o.panic,
      looked |-> IF tr.A # One /\ d.t \in NumericTypes THEN translateCoeff(tr, d) ELSE d,
      v      |-> o.v]
       : o \in translateMap(tr, IF tr.A # One /\ d.t \in NumericTypes
                                THEN translateCoeff(tr, d) ELSE d)}

\* Translate: the set of [panic, looked, v]: looked is the local variable
\* value after line 71, v the value returned
Translate(tr, d) ==
    {[panic  |-> o.panic,
      looked |-> o.v,
      v      |-> IF ~o.panic /\ tr.A # One THEN translateCoeff(tr, o.v) ELSE o.v]
       : o \in translateMap(tr, d)}

-----------------------------------------------------------------------------
(* The inputs of the engine's specification *)

\* the most tuples in a map text of Spec
MaxEntries == 2

\* the numeric inputs are the integers of -MaxNum..MaxNum, the halves between
\* them, 3 and 10, in each of the four numeric types
MaxNum == 1

\* join(<<a, b>>, ";") = a;b
RECURSIVE Join(_)
Join(ts) ==
    IF ts = <<>> THEN <<>>
    ELSE IF Len(ts) = 1 THEN ts[1]
    ELSE ts[1] \o <<";">> \o Join(Tail(ts))

SeqsUpTo(S, k) == UNION {[1..n -> S] : n \in 0..k}

\* (1,OPEN)  (1,5)  (true,1)  (OPEN,2)
LookupTuples ==
    {<<"(", "1", ",", "O", "P", "E", "N", ")">>,
     <<"(", "1", ",", "5", ")">>,
     <<"(", "t", "r", "u", "e", ",", "1", ")">>,
     <<"(", "O", "P", "E", "N", ",", "2", ")">>}

LookupTexts == {Join(ts) : ts \in SeqsUpTo(LookupTuples, MaxEntries)}

\* formula.A: absent, 0, 1/2, 1, 3/2, 2, 10, -2
Coefficients ==
    {[hasA |-> FALSE, A |-> Zero]} \cup
    {[hasA |-> TRUE, A |-> a] : a \in {Zero, Rat(1, 2), One, Rat(3, 2), Rat(2, 1),
                                       Rat(10, 1), Rat(-2, 1)}}

Formulas == {[Map |-> m, hasA |-> c.hasA, A |-> c.A] : m \in LookupTexts, c \in Coefficients}

\* what initDriverItem passes for a formula the descriptor does not declare
\* (nil, or the zero Formula), and a formula passed all the same
AbsentFormulas ==
    {[Map |-> <<>>, hasA |-> FALSE, A |-> Zero],
     [Map |-> <<"(", "1", ",", "O", "P", "E", "N", ")">>, hasA |-> TRUE, A |-> Rat(2, 1)]}

Ints == (-MaxNum..MaxNum) \cup {3, 10}

Halves == {2 * i + 1 : i \in (-MaxNum)..(MaxNum - 1)}

Inputs ==
    {GoInt(i) : i \in Ints} \cup {GoInt64(i) : i \in Ints} \cup
    {F64(i, 1) : i \in Ints} \cup {F32(i, 1) : i \in Ints} \cup
    {F64(h, 2) : h \in Halves} \cup {F32(h, 2) : h \in Halves} \cup
    {Bool(TRUE), Bool(FALSE), Nil, Bytes(<<"1">>),
     Str(<<"O", "P", "E", "N">>), Str(<<"1">>), Str(<<"5">>)}

\* a Translation of a new DriverItem when initDriverItem calls init on it:
\* the zero value, but for Field
NewTranslation == [Field |-> <<"v", "a", "l">>, Map |-> <<>>, A |-> Zero]

-----------------------------------------------------------------------------
(* Driver items (src/driver/driverItem.go).  A Go pointer is a record
   [nil, v]: v is the value pointed to, the zero value under a nil pointer. *)

NilString == [nil |-> TRUE, v |-> <<>>]

PtrString(s) == [nil |-> FALSE, v |-> s]

NilInt == [nil |-> TRUE, v |-> 0]

PtrInt(i) == [nil |-> FALSE, v |-> i]

\* the zero Formula: what hd.Formula[name] yields for a name that is not a key
ZeroFormula == [Map |-> <<>>, hasA |-> FALSE, A |-> Zero]

\* hd.Formula is a function from the declared names to their formulas
NoFormulas == [n \in {} |-> ZeroFormula]

\* HardwareDescriptor{}
ZeroDescriptor ==
    [IsSensor |-> FALSE, ExtendedType |-> NilString, Formula |-> NoFormulas,
     Frequency |-> NilInt, PairingNeeded |-> FALSE, RequestFrame |-> NilString,
     AckFrame |-> NilString, StateRequestFrame |-> NilString]

\* Translation{}
ZeroTranslation == [Field |-> <<>>, Map |-> <<>>, A |-> Zero]

\* DriverItem{}
ZeroDriverItem ==
    [Type |-> <<>>, Read |-> ZeroTranslation, Write |-> ZeroTranslation,
     Frequency |-> NilInt, IsSensor |-> FALSE, PairingNeeded |-> FALSE,
     HDesc |-> ZeroDescriptor]

\* a nil *DriverItem
NilItem == [nil |-> TRUE, v |-> ZeroDriverItem]

PtrItem(d) == [nil |-> FALSE, v |-> d]

\* tf, ok := hd.Formula[name]
FormulaOf(h, name) ==
    IF name \in DOMAIN h.Formula THEN [tf |-> h.Formula[name], ok |-> TRUE]
    ELSE [tf |-> ZeroFormula, ok |-> FALSE]

\* driver.Read.Field after the frames are resolved
readField(h) ==
    IF h.IsSensor
    THEN IF ~h.RequestFrame.nil THEN h.RequestFrame.v ELSE <<>>
    ELSE IF ~h.AckFrame.nil THEN h.AckFrame.v ELSE <<>>

\* driver.Write.Field of an actuator taken from ackFrame alone
writeField_AlwaysAck(h) ==
    IF h.IsSensor
    THEN IF ~h.RequestFrame.nil THEN h.RequestFrame.v ELSE <<>>
    ELSE IF ~h.AckFrame.nil THEN h.AckFrame.v ELSE <<>>

\* driver.Write.Field after the frames are resolved
writeField(h) ==
    IF h.IsSensor
    THEN IF ~h.RequestFrame.nil THEN h.RequestFrame.v ELSE <<>>
    ELSE IF ~h.StateRequestFrame.nil THEN h.StateRequestFrame.v
         ELSE IF ~h.AckFrame.nil THEN h.AckFrame.v ELSE <<>>

\* driver.Read of an actuator compiled from "STANDARD"
readRule_ActuatorReadsStandard(h) ==
    LET tf == FormulaOf(h, "STANDARD")
    IN  init([ZeroTranslation EXCEPT !.Field = readField(h)], tf.tf, tf.ok, TRUE)

\* driver.Write of a sensor compiled from "STATE"
writeRule_SensorWritesState(h) ==
    LET tf == FormulaOf(h, IF h.IsSensor THEN "STATE" ELSE "STANDARD")
    IN  init([ZeroTranslation EXCEPT !.Field = writeField(h)], tf.tf, tf.ok, FALSE)

\* driver.Read after its init: of "STANDARD" for a sensor, of "STATE" for an
\* actuator, with forceToString
readRule(h) ==
    LET tf == FormulaOf(h, IF h.IsSensor THEN "STANDARD" ELSE "STATE")
    IN  init([ZeroTranslation EXCEPT !.Field = readField(h)], tf.tf, tf.ok, TRUE)

\* driver.Write after its init: init(nil, false, false) for a sensor, of
\* "STANDARD" for an actuator
writeRule(h) ==
    LET tf == IF h.IsSensor THEN [tf |-> ZeroFormula, ok |-> FALSE]
              ELSE FormulaOf(h, "STANDARD")
    IN  init([ZeroTranslation EXCEPT !.Field = writeField(h)], tf.tf, tf.ok, FALSE)

\* an assembly that gives an item without declared frequency the frequency 0
initDriverItem_DefaultsFrequency(h) ==
    [driver |-> PtrItem([Type |-> IF ~h.ExtendedType.nil THEN h.ExtendedType.v ELSE <<>>,
                         Read |-> readRule(h),
                         Write |-> writeRule(h),
                         Frequency |-> IF h.Frequency.nil THEN PtrInt(0) ELSE h.Frequency,
                         IsSensor |-> h.IsSensor,
                         PairingNeeded |-> h.PairingNeeded,
                         HDesc |-> h]),
     ok |-> TRUE]

\* initDriverItem(hd): the returned (*DriverItem, bool)
initDriverItem(h) ==
    [driver |-> PtrItem([Type |-> IF ~h.ExtendedType.nil THEN h.ExtendedType.v ELSE <<>>,
                         Read |-> readRule(h),
                         Write |-> writeRule(h),
                         Frequency |-> h.Frequency,
                         IsSensor |-> h.IsSensor,
                         PairingNeeded |-> h.PairingNeeded,
                         HDesc |-> h]),
     ok |-> TRUE]

-----------------------------------------------------------------------------
(* The driver registry (DriversManager) *)

\* const itemsPath
itemsPath ==
    <<"/", "d", "a", "t", "a", "/", "o", "p", "e", "n", "c", "a", "p", "s", "/", "d", "r", "i", "v", "e", "r", "s", "/", "i", "t", "e", "m", "s", "/">>

\* the characters itemPathRegex [^a-zA-Z0-9_] leaves alone
WordChars ==
    {Upper[i] : i \in 1..Len(Upper)} \cup {LowerL[i] : i \in 1..Len(LowerL)} \cup
    {HexDigits[i] : i \in 1..10} \cup {"_"}

\* itemPathRegex.ReplaceAllString(s, "_")
ReplaceAllString(s) == [i \in 1..Len(s) |-> IF s[i] \in WordChars THEN s[i] ELSE "_"]

\* itemPath(id, version)
itemPath(id, version) ==
    itemsPath \o ReplaceAllString(id) \o <<"-">> \o ReplaceAllString(version)
              \o <<".", "j", "s", "o", "n">>

\* driverName(id, version)
driverName(id, version) == id \o version

\* the goroutines that call the registry
Goroutines == {"g1", "g2"}

\* the most calls one goroutine makes
MaxCalls == 2

\* a sensor descriptor: requestFrame "val", formulas {STANDARD: {a: 2}}
SensorVal ==
    [ZeroDescriptor EXCEPT !.IsSensor = TRUE,
                           !.RequestFrame = PtrString(<<"v", "a", "l">>),
                           !.Formula = [n \in {"STANDARD"} |->
                                           [Map |-> <<>>, hasA |-> TRUE, A |-> Rat(2, 1)]]]

\* a sensor descriptor that declares no requestFrame
SensorNoFrame == [ZeroDescriptor EXCEPT !.IsSensor = TRUE]

\* the (id, version) pairs asked for: s-1 and s-2 are on the disk, m-1 is
\* not, u-1 cannot be read, j-1 is not a JSON document
Pairs ==
    {<<<<"s">>, <<"1">>>>, <<<<"s">>, <<"2">>>>, <<<<"m">>, <<"1">>>>,
     <<<<"u">>, <<"1">>>>, <<<<"j">>, <<"1">>>>}

\* an actuator descriptor: ackFrame "ack", no formula
ActuatorAck == [ZeroDescriptor EXCEPT !.AckFrame = PtrString(<<"a", "c", "k">>)]

\* two pairs whose id + version is the same string "abc"; both are on the disk,
\* ab-c.json holding SensorVal and a-bc.json holding ActuatorAck
CollidingPairs == {<<<<"a", "b">>, <<"c">>>>, <<<<"a">>, <<"b", "c">>>>}

AllPairs == Pairs \cup CollidingPairs

\* the files under itemsPath: whether io.ReadAll reads the file, whether
\* json.Unmarshal takes its bytes, and the descriptor it yields
Files ==
    LET file(p) ==
            IF p = <<<<"s">>, <<"1">>>> THEN [readable |-> TRUE, json |-> TRUE, hd |-> SensorVal]
            ELSE IF p = <<<<"s">>, <<"2">>>> THEN [readable |-> TRUE, json |-> TRUE, hd |-> SensorNoFrame]
            ELSE IF p = <<<<"u">>, <<"1">>>> THEN [readable |-> FALSE, json |-> FALSE, hd |-> ZeroDescriptor]
            ELSE IF p = <<<<"a", "b">>, <<"c">>>> THEN [readable |-> TRUE, json |-> TRUE, hd |-> SensorVal]
            ELSE IF p = <<<<"a">>, <<"b", "c">>>> THEN [readable |-> TRUE, json |-> TRUE, hd |-> ActuatorAck]
            ELSE [readable |-> TRUE, json |-> FALSE, hd |-> ZeroDescriptor]
        onDisk == AllPairs \ {<<<<"m">>, <<"1">>>>}
    IN  [path \in {itemPath(p[1], p[2]) : p \in onDisk} |->
            file(CHOOSE p \in onDisk : itemPath(p[1], p[2]) = path)]

\* dm.items after InitDriversManager: no entry
NoItems == [name \in {} |-> ZeroDriverItem]

\* dm.items[name] = d
Put(m, name, d) == [n \in DOMAIN m \cup {name} |-> IF n = name THEN d ELSE m[n]]

\* the Mutex of DriversManager when no goroutine holds it
Unlocked == "none"

\* the locals of a goroutine outside GetDriverItem and Translate
ZeroFrame ==
    [id |-> <<>>, version |-> <<>>, driver |-> NilItem, driverFound |-> FALSE,
     hd |-> ZeroDescriptor, calls |-> 0, data |-> Nil, value |-> Nil, panic |-> FALSE]

-----------------------------------------------------------------------------
(* dbusconn: protocols, bridges, devices and items *)

\* the Device and Protocol objects the program may allocate
MaxDevices == 2

MaxBridges == 2

DevObjs == 1..MaxDevices

\* 0 is the root protocol
ProtoIds == 0..MaxBridges

DevIDs == {"d1", "d2"}

ItemIDs == {"i1"}

BridgeIDs == {"b1"}

\* the typeID of the devices, and the typeIDs of the items
DeviceType == "t0"

TypeIDs == {"t1", "t2"}

\* a map[string]T without entry
NoEntries == [k \in {} |-> 0]

\* m[k] = v
Store(m, k, v) == [x \in DOMAIN m \cup {k} |-> IF x = k THEN v ELSE m[x]]

\* delete(m, k)
Delete(m, k) == [x \in DOMAIN m \ {k} |-> m[x]]

\* newProtocol: &Protocol{ready: false, Devices: make(map[string]*Device)};
\* Callbacks is nil, the Mutex is unlocked
NewProtocol == [ready |-> FALSE, Devices |-> NoEntries, Callbacks |-> FALSE, lock |-> Unlocked]

\* initDevice: &Device{DevID, TypeID, Items: make(map[string]*Item)}
NewDevice(devID, typeID, p) ==
    [DevID |-> devID, TypeID |-> typeID, Items |-> NoEntries, protocol |-> p, lock |-> Unlocked]

\* a Device object not allocated yet
NoDevice == NewDevice("", "", 0)

\* a goroutine outside the methods of dbusconn
ZeroProc ==
    [pc |-> "idle", op |-> "", p |-> 0, d |-> 0, id |-> "", typeID |-> "",
     caller |-> "", bridgeID |-> "", ret |-> FALSE, err |-> "", cbs |-> <<>>, sigs |-> <<>>]

-----------------------------------------------------------------------------
(* dbusconn: the properties of a device and the LogLevel of the root protocol *)

\* device.ReachabilityTimeout when it is set, in ticks of the clock
Timeout == 2

\* the expiries of the timer a behaviour may hold
MaxExpiries == 2

\* the versions given to SetVersion
Versions == {<<"1", ".", "0">>, <<"1", ".", "1">>}

\* go-logging: the names of the levels, the Level being the index from 0
levelNames ==
    <<<<"C", "R", "I", "T", "I", "C", "A", "L">>, <<"E", "R", "R", "O", "R">>,
      <<"W", "A", "R", "N", "I", "N", "G">>, <<"N", "O", "T", "I", "C", "E">>,
      <<"I", "N", "F", "O">>, <<"D", "E", "B", "U", "G">>>>

\* go-logging LogLevel(level): the Level whose name is level whatever the case
\* of the letters (strings.EqualFold), or ERROR and ErrInvalidLogLevel
LogLevel(level) ==
    LET hits == {i \in 1..Len(levelNames) : LowerStr(levelNames[i]) = LowerStr(level)}
    IN  IF hits # {}
        THEN [level |-> (CHOOSE i \in hits : TRUE) - 1, err |-> FALSE]
        ELSE [level |-> 1, err |-> TRUE]

\* the values written to the LogLevel property
LogLevelValues ==
    {<<"D", "E", "B", "U", "G">>, <<"e", "r", "r", "o", "r">>, <<"I", "n", "f", "o">>,
     <<"V", "E", "R", "B", "O", "S", "E">>, <<>>}

\* initDevice, before the export and the user's settings: properties nil,
\* ReachabilityTimeout 0, FirmwareVersion "", timer nil, no callback
InitialDevice ==
    [configured |-> FALSE, properties |-> FALSE, ReachabilityTimeout |-> 0,
     FirmwareVersion |-> <<>>, timer |-> FALSE, ReacheabilityTimeoutCB |-> FALSE]

\* initDeviceProp: the properties hold the fields of the new device
InitialProps == [ReachabilityState |-> "KO", Version |-> <<>>]

\* the caller of the setters outside any of them; n is the parity of the
\* number of calls made, which tells a call from the same call made again
ZeroCall == [op |-> "", pc |-> "idle", n |-> 0, state |-> "", old |-> "", version |-> <<>>,
             value |-> <<>>, err |-> "", published |-> <<>>]

-----------------------------------------------------------------------------
(* The engine's specification: a rule is compiled, then applied to inputs *)

Init ==
    /\ t = NewTranslation
    /\ formula = [Map |-> <<>>, hasA |-> FALSE, A |-> Zero]
    /\ formulaExit = FALSE
    /\ forceToString = FALSE
    /\ op = "new"
    /\ data = Nil
    /\ looked = Nil
    /\ result = Nil
    /\ panicked = FALSE
    /\ hd = ZeroDescriptor
    /\ driver = NilItem
    /\ ok = FALSE
    /\ items = NoItems
    /\ mutex = Unlocked
    /\ pc = [g \in Goroutines |-> "idle"]
    /\ frame = [g \in Goroutines |-> ZeroFrame]
    /\ built = [p \in AllPairs |-> 0]
    /\ stored = [p \in AllPairs |-> 0]
    /\ protoObjs = [p \in ProtoIds |-> NewProtocol]
    /\ nprotos = 0
    /\ Bridges = NoEntries
    /\ rootCallbacks = FALSE
    /\ deviceObjs = [d \in DevObjs |-> NoDevice]
    /\ ndevs = 0
    /\ module = [ready |-> FALSE, lock |-> Unlocked]
    /\ proc = [g \in Goroutines |-> ZeroProc]
    /\ dev = InitialDevice
    /\ props = InitialProps
    /\ timer = [armed |-> FALSE, remaining |-> 0]
    /\ cb = [pc |-> "idle", old |-> ""]
    /\ call = ZeroCall
    /\ logLevel = LogLevel(<<"D", "E", "B", "U", "G">>).level
    /\ stats = [expiries |-> 0, wentKo |-> 0, timers |-> 0, sinceOk |-> 0]

\* t.init(&f, exit, force)
CallInit(f, exit, force) ==
    /\ op = "new"
    /\ t' = init(t, f, exit, force)
    /\ formula' = f
    /\ formulaExit' = exit
    /\ forceToString' = force
    /\ op' = "init"
    /\ UNCHANGED <<data, looked, result, panicked, itemVars, managerVars, dbusVars>>

\* result = t.Translate(x)
CallTranslate(x) ==
    /\ op # "new"
    /\ \E o \in Translate(t, x) :
          /\ looked' = o.looked
          /\ result' = o.v
          /\ panicked' = o.panic
    /\ data' = x
    /\ op' = "Translate"
    /\ UNCHANGED <<t, formula, formulaExit, forceToString, itemVars, managerVars, dbusVars>>

Compile ==
    \/ \E f \in Formulas, force \in BOOLEAN : CallInit(f, TRUE, force)
    \/ \E f \in AbsentFormulas, force \in BOOLEAN : CallInit(f, FALSE, force)

Apply == \E x \in Inputs : CallTranslate(x)

Next == Compile \/ Apply

Spec == Init /\ [][Next]_vars

-----------------------------------------------------------------------------
(* Properties of the engine, checked under Spec *)

Translated == op = "Translate"

TableKeys == {t.Map[i].k : i \in 1..Len(t.Map)}

\* the entries whose key is the float64 of number n
FloatEntries(n) == {i \in 1..Len(t.Map) : t.Map[i].k = [t |-> "float64", n |-> n, d |-> 1, s |-> <<>>]}

\* data equals no key of the table: no key of its own type and value and, for
\* a native integer, no float key of its value
NoKeyOf(x) ==
    /\ x \notin TableKeys
    /\ x.t = "int" => FloatEntries(x.n) = {}

\* C1: Translate never raises a hard error: whatever the rule and the input,
\* nil included, a call of Translate returns a value.
C1_TranslateNeverAborts == Translated => ~panicked

\* C2: a rule compiled with present=false has coefficient 1 and an empty
\* table whatever formula was passed, and Translate returns every input
\* unchanged.
C2_IdentityRule ==
    (op # "new" /\ ~formulaExit) =>
        /\ t.A = One
        /\ t.Map = <<>>
        /\ Translated => ~panicked /\ result = data

C2_Witness ==
    /\ Translated /\ ~formulaExit
    /\ formula.hasA /\ formula.A # One /\ formula.Map # <<>>
    /\ data = GoInt(1) /\ result = GoInt(1)

\* C3, as claimed: under a rule of coefficient 1 (Translate returns what the
\* lookup yields), an integer input of either accepted integer type, int or
\* int64, whose value equals a float key is translated to that entry's value.
C3_AnyIntegerMatchesFloatKey ==
    (Translated /\ t.A = One /\ data.t \in {"int", "int64"}) =>
        \A i \in FloatEntries(data.n) : result = t.Map[i].v

\* C3, amended: a native integer (int) input whose value equals a float key
\* is looked up to that entry's value, and one that equals no float key is a
\* miss; a 64-bit integer (int64) input equals no float key and is always a
\* miss.  The table of "(1,OPEN)" maps the int 1 to "OPEN".
C3_NativeIntMatchesFloatKey ==
    Translated =>
        /\ data.t = "int" =>
              /\ \A i \in FloatEntries(data.n) : looked = t.Map[i].v
              /\ FloatEntries(data.n) = {} => looked = data
              /\ t.A = One => result = looked
        /\ data.t = "int64" => looked = data
        /\ (formulaExit /\ formula.Map = <<"(", "1", ",", "O", "P", "E", "N", ")">> /\ data = GoInt(1)) =>
              result = Str(<<"O", "P", "E", "N">>)

C3_Witness ==
    /\ Translated /\ data = GoInt(1)
    /\ Len(t.Map) = 2 /\ t.Map[2].k = F64(1, 1)
    /\ result = Str(<<"O", "P", "E", "N">>)

C5_RoundingAsymmetry ==
    (Translated /\ ~panicked /\ t.A # One /\ looked.t \in NumericTypes) =>
        LET pn == looked.n * t.A.n
            pd == looked.d * t.A.d
        IN  /\ t.A.n > t.A.d =>
                /\ result.t = "int64" /\ result.d = 1
                /\ Abs(result.n) * pd <= Abs(pn)
                /\ Abs(pn) < (Abs(result.n) + 1) * pd
                /\ result.n * pn >= 0
            /\ t.A.n < t.A.d =>
                /\ result.t = "float64" /\ result.d > 0
                /\ result.n * pd = pn * result.d
            /\ (t.A = Rat(10, 1) /\ looked = F64(3, 1)) => result = GoInt64(30)
            /\ (t.A = Rat(1, 2) /\ looked = F64(10, 1)) => result = F64(5, 1)

C5_Witness ==
    /\ Translated /\ t.A = Rat(3, 2)
    /\ looked = F32(-1, 1) /\ result = GoInt64(-1)

\* C6: Translate looks the input up first and scales the result of the lookup
\* (the matched value on a hit, the input on a miss), and only when the
\* coefficient is not 1: table {1 -> 5} with coefficient 2 maps 1 to 10.
C6_LookupThenScale ==
    (Translated /\ ~panicked) =>
        /\ \/ \E i \in 1..Len(t.Map) : KeyMatches(t.Map[i].k, data) /\ looked = t.Map[i].v
           \/ NoKeyOf(data) /\ looked = data
        /\ result = IF t.A = One THEN looked ELSE translateCoeff(t, looked)
        /\ (formula.Map = <<"(", "1", ",", "5", ")">> /\ ~forceToString /\ t.A = Rat(2, 1) /\ data = GoInt(1)) =>
              looked = F64(5, 1) /\ result = GoInt64(10)

C6_Witness ==
    /\ Translated /\ formula.Map = <<"(", "1", ",", "5", ")">> /\ ~forceToString /\ t.A = Rat(2, 1)
    /\ data = GoInt(1) /\ result = GoInt64(10)

\* C7: with a coefficient that is not 1, a value that reaches the scaling step
\* with a type other than float64, float32, int64 and int (a string of a
\* forced-string table, a boolean, anything else) is returned unchanged.
C7_OnlyNumbersScaled ==
    (Translated /\ ~panicked /\ t.A # One /\ looked.t \notin NumericTypes) =>
        result = looked

C7_Witness ==
    /\ Translated /\ t.A = Rat(2, 1) /\ forceToString
    /\ data = GoInt(1) /\ looked = Str(<<"5">>) /\ result = Str(<<"5">>)

-----------------------------------------------------------------------------
(* The compiler's specification: init on the map texts of up to MaxTuples
   tuples *)

MaxTuples == 3

\* (1,OPEN)  bad  (0,CLOSED)  (1,2)  (1,2,3)  (1.0,X)  (true,F)  and the
\* empty tuple
MapTuples ==
    {<<"(", "1", ",", "O", "P", "E", "N", ")">>,
     <<"b", "a", "d">>,
     <<"(", "0", ",", "C", "L", "O", "S", "E", "D", ")">>,
     <<"(", "1", ",", "2", ")">>,
     <<"(", "1", ",", "2", ",", "3", ")">>,
     <<"(", "1", ".", "0", ",", "X", ")">>,
     <<"(", "t", "r", "u", "e", ",", "F", ")">>,
     <<>>}

MapTexts == {Join(ts) : ts \in SeqsUpTo(MapTuples, MaxTuples)}

MapFormulas ==
    {[Map |-> m, hasA |-> c.hasA, A |-> c.A] :
        m \in MapTexts, c \in {[hasA |-> FALSE, A |-> Zero], [hasA |-> TRUE, A |-> Rat(2, 1)]}}

CompileMap == \E f \in MapFormulas, force \in BOOLEAN : CallInit(f, TRUE, force)

SpecInit == Init /\ [][CompileMap]_vars

-----------------------------------------------------------------------------
(* The coercion's specification: convert on every token of up to MaxTokenLen
   characters of TokenChars, and on the sample tokens (the exponents, the
   hexadecimal floats, the words) *)

MaxTokenLen == 3

TokenChars == {"0", "1", ".", "-", "+", "t", "F", "x"}

\* 3.14 true OPEN NaN -Inf infinity 0x1p-2 0X.8P1 0x1 false TRUE tRUE
\* 1e2 1e e1 1.5e-1 1e+1 1e1.0 nan inf +nan Info
SampleTokens ==
    {<<"3", ".", "1", "4">>,
     <<"t", "r", "u", "e">>,
     <<"O", "P", "E", "N">>,
     <<"N", "a", "N">>,
     <<"-", "I", "n", "f">>,
     <<"i", "n", "f", "i", "n", "i", "t", "y">>,
     <<"0", "x", "1", "p", "-", "2">>,
     <<"0", "X", ".", "8", "P", "1">>,
     <<"0", "x", "1">>,
     <<"f", "a", "l", "s", "e">>,
     <<"T", "R", "U", "E">>,
     <<"t", "R", "U", "E">>,
     <<"1", "e", "2">>,
     <<"1", "e">>,
     <<"e", "1">>,
     <<"1", ".", "5", "e", "-", "1">>,
     <<"1", "e", "+", "1">>,
     <<"1", "e", "1", ".", "0">>,
     <<"n", "a", "n">>,
     <<"i", "n", "f">>,
     <<"+", "n", "a", "n">>,
     <<"I", "n", "f", "o">>}

Tokens == SeqsUpTo(TokenChars, MaxTokenLen) \cup SampleTokens

\* result = convert(tok)
CallConvert(tok) ==
    /\ op = "new"
    /\ op' = "convert"
    /\ data' = Str(tok)
    /\ result' = convert(tok)
    /\ UNCHANGED <<t, formula, formulaExit, forceToString, looked, panicked,
                   itemVars, managerVars, dbusVars>>

Coerce == \E tok \in Tokens : CallConvert(tok)

SpecConvert == Init /\ [][Coerce]_vars

-----------------------------------------------------------------------------
(* Properties of the coercion, checked under SpecConvert *)

Digits == {"0", "1", "2", "3", "4", "5", "6", "7", "8", "9"}

HexLetters == {"a", "b", "c", "d", "e", "f", "A", "B", "C", "D", "E", "F"}

\* one step of the automaton of the float syntaxes: base 10 is
\* [+-] digits [. digits] [e [+-] digits] with a digit in the mantissa
\* (states zero, int, dot, frac, e, esign, exp), base 16 is
\* [+-] 0x hexdigits [. hexdigits] p [+-] digits (states x ... pexp)
Step(q, c) ==
    CASE q = "start" /\ c \in {"+", "-"} -> "sign"
      [] q \in {"start", "sign"} /\ c = "0" -> "zero"
      [] q \in {"start", "sign"} /\ c \in Digits -> "int"
      [] q \in {"start", "sign"} /\ c = "." -> "dot"
      [] q = "zero" /\ c \in {"x", "X"} -> "x"
      [] q \in {"zero", "int"} /\ c \in Digits -> "int"
      [] q \in {"zero", "int"} /\ c = "." -> "frac"
      [] q \in {"dot", "frac"} /\ c \in Digits -> "frac"
      [] q \in {"zero", "int", "frac"} /\ c \in {"e", "E"} -> "e"
      [] q = "e" /\ c \in {"+", "-"} -> "esign"
      [] q \in {"e", "esign", "exp"} /\ c \in Digits -> "exp"
      [] q \in {"x", "hint"} /\ c \in Digits \cup HexLetters -> "hint"
      [] q = "x" /\ c = "." -> "hdot"
      [] q = "hint" /\ c = "." -> "hfrac"
      [] q \in {"hdot", "hfrac"} /\ c \in Digits \cup HexLetters -> "hfrac"
      [] q \in {"hint", "hfrac"} /\ c \in {"p", "P"} -> "p"
      [] q = "p" /\ c \in {"+", "-"} -> "psign"
      [] q \in {"p", "psign", "pexp"} /\ c \in Digits -> "pexp"
      [] OTHER -> "reject"

RECURSIVE Run(_, _)
Run(q, s) == IF s = <<>> THEN q ELSE Run(Step(q, Head(s)), Tail(s))

\* a base-10 float, scientific notation included
IsDecimalFloat(s) == Run("start", s) \in {"zero", "int", "frac", "exp"}

IsHexFloat(s) == Run("start", s) = "pexp"

IsInfOrNaN(s) ==
    \/ LowerStr(s) \in {<<"n", "a", "n">>, <<"i", "n", "f">>,
                        <<"i", "n", "f", "i", "n", "i", "t", "y">>}
    \/ /\ Len(s) > 1 /\ s[1] \in {"+", "-"}
       /\ LowerStr(Tail(s)) \in {<<"i", "n", "f">>,
                                 <<"i", "n", "f", "i", "n", "i", "t", "y">>}

BoolWords ==
    {<<"1">>, <<"t">>, <<"T">>, <<"T", "R", "U", "E">>, <<"t", "r", "u", "e">>,
     <<"T", "r", "u", "e">>, <<"0">>, <<"f">>, <<"F">>, <<"F", "A", "L", "S", "E">>,
     <<"f", "a", "l", "s", "e">>, <<"F", "a", "l", "s", "e">>}

Converted == op = "convert"

\* the examples of C8: "3.14", "true", "OPEN", "1", "0"
C8_Examples ==
    /\ data.s = <<"3", ".", "1", "4">> => result = F64(314, 100)
    /\ data.s = <<"t", "r", "u", "e">> => result = Bool(TRUE)
    /\ data.s = <<"O", "P", "E", "N">> => result = Str(<<"O", "P", "E", "N">>)
    /\ data.s = <<"1">> => result = F64(1, 1)
    /\ data.s = <<"0">> => result = F64(0, 1)

-----------------------------------------------------------------------------
(* Properties of the compiler, checked under SpecInit *)

Compiled == op = "init" /\ formulaExit

\* the ';'-separated tokens of the map text; none for the empty text
MapTokens == IF formula.Map = <<>> THEN <<>> ELSE Split(formula.Map, ";")

Count(s, c) == Cardinality({i \in 1..Len(s) : s[i] = c})

\* a token of exactly two ','-separated fields
WellFormed(tok) == Count(tok, ",") = 1

NoParens(s) == SelectSeq(s, LAMBDA c : c \notin {"(", ")"})

Field1(tok) == NoParens(Take(tok, FirstIn(tok, {","}) - 1))

Field2(tok) == NoParens(Drop(tok, FirstIn(tok, {","})))

\* the well-formed tokens whose key is k, by position in the text
TokensOfKey(k) ==
    {j \in 1..Len(MapTokens) : WellFormed(MapTokens[j]) /\ convert(Field1(MapTokens[j])) = k}

Last(S) == CHOOSE j \in S : \A i \in S : i <= j

\* C9: a token that does not split into exactly two fields contributes no
\* entry and does not stop the compilation, and every well-formed token
\* before or after it contributes its entry: the table is the table of the
\* well-formed tokens alone.  "(1,OPEN);bad;(0,CLOSED)", values forced to
\* strings, compiles to exactly 1 -> "OPEN" and 0 -> "CLOSED".
C9_MalformedTuplesDropped ==
    Compiled =>
        /\ t.Map = InsertTuples(<<>>, SelectSeq(MapTokens, WellFormed), forceToString)
        /\ \A j \in 1..Len(MapTokens) :
              WellFormed(MapTokens[j]) =>
                  \E i \in 1..Len(t.Map) : t.Map[i].k = convert(Field1(MapTokens[j]))
        /\ Len(t.Map) <= Len(SelectSeq(MapTokens, WellFormed))
        /\ (formula.Map = <<"(", "1", ",", "O", "P", "E", "N", ")", ";", "b", "a", "d", ";", "(", "0", ",", "C", "L", "O", "S", "E", "D", ")">> /\ forceToString) =>
              t.Map = <<[k |-> F64(1, 1), v |-> Str(<<"O", "P", "E", "N">>)],
                        [k |-> F64(0, 1), v |-> Str(<<"C", "L", "O", "S", "E", "D">>)]>>

C9_Witness ==
    /\ Compiled /\ forceToString /\ formula.Map = <<"(", "1", ",", "O", "P", "E", "N", ")", ";", "b", "a", "d", ";", "(", "0", ",", "C", "L", "O", "S", "E", "D", ")">>
    /\ Len(t.Map) = 2

\* C10: the key of every entry is the coerced field 1 of a well-formed tuple;
\* its value is field 2 of the last such tuple, as a raw string when
\* forceToString is set ("(1,2)" stores "2") and coerced when it is not
\* ("(1,2)" stores the float 2).
C10_KeyCoercedValueByFlag ==
    Compiled =>
        /\ \A i \in 1..Len(t.Map) :
              /\ TokensOfKey(t.Map[i].k) # {}
              /\ t.Map[i].v =
                    IF forceToString
                    THEN Str(Field2(MapTokens[Last(TokensOfKey(t.Map[i].k))]))
                    ELSE convert(Field2(MapTokens[Last(TokensOfKey(t.Map[i].k))]))
        /\ formula.Map = <<"(", "1", ",", "2", ")">> =>
              t.Map = <<[k |-> F64(1, 1),
                         v |-> IF forceToString THEN Str(<<"2">>) ELSE F64(2, 1)]>>

C10_Witness ==
    /\ Compiled /\ forceToString /\ Len(t.Map) = 2
    /\ t.Map[2] = [k |-> F64(1, 1), v |-> Str(<<"2">>)]
    /\ t.Map[1] = [k |-> Bool(TRUE), v |-> Str(<<"F">>)]

-----------------------------------------------------------------------------
(* The assembly's specification: initDriverItem on a descriptor *)

\* {a: 2}   {map: "(1,5)"}   {map: "(1,OPEN);(0,CLOSED)", a: 1/2}
ItemFormulas ==
    {[Map |-> <<>>, hasA |-> TRUE, A |-> Rat(2, 1)],
     [Map |-> <<"(", "1", ",", "5", ")">>, hasA |-> FALSE, A |-> Zero],
     [Map |-> <<"(", "1", ",", "O", "P", "E", "N", ")", ";",
                "(", "0", ",", "C", "L", "O", "S", "E", "D", ")">>,
      hasA |-> TRUE, A |-> Rat(1, 2)]}

\* the values of hd.Formula: any of "STANDARD" and "STATE", declared or not
FormulaMaps == UNION {[names -> ItemFormulas] : names \in SUBSET {"STANDARD", "STATE"}}

Descriptors ==
    [IsSensor : BOOLEAN,
     ExtendedType : {NilString, PtrString(<<"T">>)},
     Formula : FormulaMaps,
     Frequency : {NilInt, PtrInt(0), PtrInt(30)},
     PairingNeeded : BOOLEAN,
     RequestFrame : {NilString, PtrString(<<"v", "a", "l">>)},
     AckFrame : {NilString, PtrString(<<"a", "c", "k">>)},
     StateRequestFrame : {NilString, PtrString(<<"r", "e", "q">>)}]

\* driver, ok = initDriverItem(h)
CallInitDriverItem(h) ==
    /\ op = "new"
    /\ hd' = h
    /\ \E r \in {initDriverItem(h)} : driver' = r.driver /\ ok' = r.ok
    /\ op' = "initDriverItem"
    /\ UNCHANGED <<t, formula, formulaExit, forceToString, data, looked, result,
                   panicked, managerVars, dbusVars>>

Assemble == \E h \in Descriptors : CallInitDriverItem(h)

SpecItem == Init /\ [][Assemble]_vars

-----------------------------------------------------------------------------
(* Properties of the assembly, checked under SpecItem *)

Assembled == op = "initDriverItem"

\* the descriptor lacks the frame its mode requires
MissingFrame(h) == IF h.IsSensor THEN h.RequestFrame.nil ELSE h.AckFrame.nil

\* C11: the assembly of a sensor descriptor without requestFrame, and of an
\* actuator descriptor without ackFrame (stateRequestFrame declared or not),
\* reports failure and produces no item.
C11_MissingFrameFails ==
    Assembled /\ MissingFrame(hd) => ~ok /\ driver.nil

\* the table init compiles from formula f: <<>> when the map text is empty
TableOf(f, forceToStr) ==
    IF f.Map = <<>> THEN <<>> ELSE InsertTuples(<<>>, Split(f.Map, ";"), forceToStr)

\* what Translate returns when it returns x unchanged
Unchanged(x) == {[panic |-> FALSE, looked |-> x, v |-> x]}

\* C12: a sensor descriptor with requestFrame f yields an item with
\* read.field = write.field = f, whose read rule is the compilation of
\* "STANDARD" with forceValueToString = true (the identity if STANDARD is not
\* declared) and whose write rule is the identity whatever formulas are
\* declared; STANDARD = {a: 2} gives the read coefficient 2.
C12_SensorAssembly ==
    Assembled /\ hd.IsSensor /\ ~hd.RequestFrame.nil =>
        LET item == driver.v
            declared == "STANDARD" \in DOMAIN hd.Formula
        IN  /\ ok /\ ~driver.nil
            /\ item.Read.Field = hd.RequestFrame.v
            /\ item.Write.Field = hd.RequestFrame.v
            /\ item.Read.A = IF declared /\ hd.Formula["STANDARD"].hasA
                             THEN hd.Formula["STANDARD"].A ELSE One
            /\ item.Read.Map = IF declared THEN TableOf(hd.Formula["STANDARD"], TRUE)
                               ELSE <<>>
            /\ \A i \in 1..Len(item.Read.Map) : item.Read.Map[i].v.t = "string"
            /\ item.Write.A = One
            /\ item.Write.Map = <<>>
            /\ \A x \in Inputs : Translate(item.Write, x) = Unchanged(x)
            /\ (declared /\ hd.Formula["STANDARD"] = [Map |-> <<>>, hasA |-> TRUE, A |-> Rat(2, 1)]
                    => item.Read.A = Rat(2, 1) /\ item.Read.Map = <<>>)

\* a sensor with requestFrame "val", STANDARD = {a: 2} and a STATE formula
C12_Witness ==
    /\ Assembled /\ ok
    /\ hd.IsSensor
    /\ hd.RequestFrame = PtrString(<<"v", "a", "l">>)
    /\ DOMAIN hd.Formula = {"STANDARD", "STATE"}
    /\ hd.Formula["STANDARD"] = [Map |-> <<>>, hasA |-> TRUE, A |-> Rat(2, 1)]
    /\ hd.Formula["STATE"].Map # <<>>
    /\ driver.v.Read.Field = <<"v", "a", "l">>
    /\ driver.v.Write.Field = <<"v", "a", "l">>
    /\ driver.v.Read.A = Rat(2, 1)
    /\ driver.v.Write.A = One /\ driver.v.Write.Map = <<>>

\* C13: an actuator's write rule is the compilation of "STANDARD" with
\* forceValueToString = false (table values coerced), its read rule the
\* compilation of "STATE" with forceValueToString = true (table values raw
\* strings); each is the identity when its formula is not declared, whatever
\* the other is.
C13_ActuatorWiring ==
    Assembled /\ ~hd.IsSensor /\ ok =>
        LET item == driver.v
            std == "STANDARD" \in DOMAIN hd.Formula
            state == "STATE" \in DOMAIN hd.Formula
        IN  /\ item.Write.A = IF std /\ hd.Formula["STANDARD"].hasA
                              THEN hd.Formula["STANDARD"].A ELSE One
            /\ item.Write.Map = IF std THEN TableOf(hd.Formula["STANDARD"], FALSE) ELSE <<>>
            /\ item.Read.A = IF state /\ hd.Formula["STATE"].hasA
                             THEN hd.Formula["STATE"].A ELSE One
            /\ item.Read.Map = IF state THEN TableOf(hd.Formula["STATE"], TRUE) ELSE <<>>
            /\ \A i \in 1..Len(item.Read.Map) : item.Read.Map[i].v.t = "string"
            /\ \A i \in 1..Len(item.Write.Map) :
                  item.Write.Map[i].v.t = "string"
                      => convert(item.Write.Map[i].v.s) = item.Write.Map[i].v
            /\ (~std => \A x \in Inputs : Translate(item.Write, x) = Unchanged(x))
            /\ (~state => \A x \in Inputs : Translate(item.Read, x) = Unchanged(x))

\* an actuator with STANDARD = {map: "(1,5)"} and no STATE: the write table
\* maps 1 to the number 5, the read rule is the identity
C13_Witness ==
    /\ Assembled /\ ok
    /\ ~hd.IsSensor
    /\ DOMAIN hd.Formula = {"STANDARD"}
    /\ hd.Formula["STANDARD"].Map = <<"(", "1", ",", "5", ")">>
    /\ driver.v.Write.Map = <<[k |-> F64(1, 1), v |-> F64(5, 1)]>>
    /\ driver.v.Read.Map = <<>> /\ driver.v.Read.A = One

\* the frame a *string field names: "" under a nil pointer
FrameOf(ptr) == IF ptr.nil THEN <<>> ELSE ptr.v

\* C14: an actuator's read.field is ackFrame; its write.field is
\* stateRequestFrame when declared and ackFrame otherwise; requestFrame has
\* no influence on either.
C14_ActuatorFields ==
    Assembled /\ ~hd.IsSensor /\ ok =>
        LET item == driver.v
        IN  /\ item.Read.Field = FrameOf(hd.AckFrame)
            /\ item.Write.Field = IF ~hd.StateRequestFrame.nil THEN hd.StateRequestFrame.v
                                  ELSE FrameOf(hd.AckFrame)
            /\ (hd.StateRequestFrame.nil => item.Write.Field = item.Read.Field)
            /\ \A r \in {NilString, PtrString(<<"v", "a", "l">>), PtrString(<<"x">>)} :
                  LET other == initDriverItem([hd EXCEPT !.RequestFrame = r]).driver.v
                  IN  /\ other.Read.Field = item.Read.Field
                      /\ other.Write.Field = item.Write.Field

\* an actuator with ackFrame "ack", no stateRequestFrame and a requestFrame
C14_Witness ==
    /\ Assembled /\ ok
    /\ ~hd.IsSensor
    /\ hd.AckFrame = PtrString(<<"a", "c", "k">>)
    /\ hd.StateRequestFrame.nil
    /\ ~hd.RequestFrame.nil
    /\ driver.v.Read.Field = <<"a", "c", "k">>
    /\ driver.v.Write.Field = <<"a", "c", "k">>


\* C21: every produced item carries the descriptor's metadata verbatim:
\* Frequency (absent included), IsSensor and PairingNeeded are the
\* descriptor's, whatever its formulas and frames are; Type is extendedType
\* when declared and the empty string otherwise.
C21_MetadataVerbatim ==
    Assembled /\ ok =>
        /\ ~driver.nil
        /\ driver.v.Frequency = hd.Frequency
        /\ driver.v.IsSensor = hd.IsSensor
        /\ driver.v.PairingNeeded = hd.PairingNeeded
        /\ driver.v.Type = (IF hd.ExtendedType.nil THEN <<>> ELSE hd.ExtendedType.v)

\* an item without frequency or extendedType whose rules were compiled from
\* declared formulas
C21_Witness ==
    /\ Assembled /\ ok /\ hd.Frequency.nil /\ hd.ExtendedType.nil
    /\ hd.IsSensor /\ hd.PairingNeeded
    /\ driver.v.Frequency = NilInt /\ driver.v.Type = <<>>
    /\ driver.v.Read.Map # <<>>

-----------------------------------------------------------------------------
(* The registry's specification: the goroutines call GetDriverItem, each
   step of a call being one action *)

\* the variables GetDriverItem leaves alone
otherVars == <<t, formula, formulaExit, forceToString, op, data, looked, result,
               panicked, itemVars, dbusVars>>

Goto(g, label) == pc' = [pc EXCEPT ![g] = label]

\* return nil, false
ReturnNothing(g) ==
    /\ frame' = [frame EXCEPT ![g].driver = NilItem, ![g].driverFound = FALSE]
    /\ Goto(g, "returned")

PathOf(g) == itemPath(frame[g].id, frame[g].version)

\* goroutine g calls dm.GetDriverItem(id, version)
Call(g, id, version) ==
    /\ pc[g] = "idle"
    /\ frame[g].calls < MaxCalls
    /\ frame' = [frame EXCEPT ![g] = [ZeroFrame EXCEPT !.id = id, !.version = version,
                                                       !.calls = frame[g].calls + 1]]
    /\ Goto(g, "getItem")
    /\ UNCHANGED <<items, mutex, built, stored, otherVars>>

\* getItem: dm.Lock()
getItem_Lock(g) ==
    /\ pc[g] = "getItem"
    /\ mutex = Unlocked
    /\ mutex' = g
    /\ Goto(g, "lookup")
    /\ UNCHANGED <<items, frame, built, stored, otherVars>>

\* getItem: driver, driverFound := dm.items[driverName(id, version)]
getItem_Lookup(g) ==
    /\ pc[g] = "lookup"
    /\ LET name == driverName(frame[g].id, frame[g].version)
       IN  frame' = [frame EXCEPT
                        ![g].driver = PtrItem(IF name \in DOMAIN items THEN items[name]
                                              ELSE ZeroDriverItem),
                        ![g].driverFound = name \in DOMAIN items]
    /\ Goto(g, "unlock")
    /\ UNCHANGED <<items, mutex, built, stored, otherVars>>

\* getItem: dm.Unlock() and return; GetDriverItem returns what was found
getItem_Unlock(g) ==
    /\ pc[g] = "unlock"
    /\ mutex' = Unlocked
    /\ Goto(g, IF frame[g].driverFound THEN "returned" ELSE "open")
    /\ UNCHANGED <<items, frame, built, stored, otherVars>>

\* jsonFile, err := os.Open(path)
Open(g) ==
    /\ pc[g] = "open"
    /\ IF PathOf(g) \in DOMAIN Files
       THEN Goto(g, "read") /\ UNCHANGED frame
       ELSE ReturnNothing(g)
    /\ UNCHANGED <<items, mutex, built, stored, otherVars>>

\* byteValue, err := io.ReadAll(jsonFile); driverFound = true
ReadAll(g) ==
    /\ pc[g] = "read"
    /\ IF Files[PathOf(g)].readable
       THEN /\ frame' = [frame EXCEPT ![g].driverFound = TRUE]
            /\ Goto(g, "unmarshal")
       ELSE ReturnNothing(g)
    /\ UNCHANGED <<items, mutex, built, stored, otherVars>>

\* Unmarshal going on with the zero descriptor when the document is not JSON
Unmarshal_IgnoresError(g) ==
    /\ pc[g] = "unmarshal"
    /\ frame' = [frame EXCEPT ![g].hd = Files[PathOf(g)].hd]
    /\ Goto(g, "initDriverItem")
    /\ UNCHANGED <<items, mutex, built, stored, otherVars>>

\* err = json.Unmarshal(byteValue, &hd)
Unmarshal(g) ==
    /\ pc[g] = "unmarshal"
    /\ IF Files[PathOf(g)].json
       THEN /\ frame' = [frame EXCEPT ![g].hd = Files[PathOf(g)].hd]
            /\ Goto(g, "initDriverItem")
       ELSE ReturnNothing(g)
    /\ UNCHANGED <<items, mutex, built, stored, otherVars>>

\* driver, ok := initDriverItem(hd)
Build(g) ==
    /\ pc[g] = "initDriverItem"
    /\ \E r \in {initDriverItem(frame[g].hd)} :
          IF r.ok
          THEN /\ frame' = [frame EXCEPT ![g].driver = r.driver]
               /\ Goto(g, "insert")
          ELSE ReturnNothing(g)
    /\ built' = [built EXCEPT ![<<frame[g].id, frame[g].version>>] = @ + 1]
    /\ UNCHANGED <<items, mutex, stored, otherVars>>

\* dm.Lock()
Insert_Lock(g) ==
    /\ pc[g] = "insert"
    /\ mutex = Unlocked
    /\ mutex' = g
    /\ Goto(g, "store")
    /\ UNCHANGED <<items, frame, built, stored, otherVars>>

\* dm.items[driverName(id, version)] = *driver
Insert_Store(g) ==
    /\ pc[g] = "store"
    /\ items' = Put(items, driverName(frame[g].id, frame[g].version), frame[g].driver.v)
    /\ stored' = [stored EXCEPT ![<<frame[g].id, frame[g].version>>] = @ + 1]
    /\ Goto(g, "release")
    /\ UNCHANGED <<mutex, frame, built, otherVars>>

\* dm.Unlock(); return driver, driverFound
Insert_Unlock(g) ==
    /\ pc[g] = "release"
    /\ mutex' = Unlocked
    /\ Goto(g, "returned")
    /\ UNCHANGED <<items, frame, built, stored, otherVars>>

\* the caller takes the result
Return(g) ==
    /\ pc[g] = "returned"
    /\ frame' = [frame EXCEPT ![g] = [ZeroFrame EXCEPT !.calls = frame[g].calls]]
    /\ Goto(g, "idle")
    /\ UNCHANGED <<items, mutex, built, stored, otherVars>>

ManagerNext ==
    \E g \in Goroutines :
        \/ \E p \in Pairs : Call(g, p[1], p[2])
        \/ getItem_Lock(g)
        \/ getItem_Lookup(g)
        \/ getItem_Unlock(g)
        \/ Open(g)
        \/ ReadAll(g)
        \/ Unmarshal(g)
        \/ Build(g)
        \/ Insert_Lock(g)
        \/ Insert_Store(g)
        \/ Insert_Unlock(g)
        \/ Return(g)

SpecManager == Init /\ [][ManagerNext]_vars

-----------------------------------------------------------------------------
(* Properties of the registry, checked under SpecManager *)

\* C15: whatever the interleaving of the calls of GetDriverItem for one
\* (id, version), the item of the pair is assembled at most once and stored in
\* the cache at most once.
C15_AtMostOneConstruction ==
    \A p \in Pairs : built[p] <= 1 /\ stored[p] <= 1

\* the call of GetDriverItem for pair p cannot succeed: no file, a file that
\* cannot be read, or a document that is not JSON
Fails(p) ==
    LET path == itemPath(p[1], p[2])
    IN  path \notin DOMAIN Files \/ ~Files[path].readable \/ ~Files[path].json

\* goroutine g has returned nil, false
ReturnedNothing(g) == pc[g] = "returned" /\ ~frame[g].driverFound

\* C16: a call of GetDriverItem that fails returns no item with found = false,
\* stores nothing (the step that fails leaves the cache as it is, and a pair
\* whose construction fails is never stored), so the pair stays out of the
\* cache.
C16_FailureNotCached ==
    /\ [](\A g \in Goroutines :
            ReturnedNothing(g) =>
                /\ frame[g].driver.nil
                /\ Fails(<<frame[g].id, frame[g].version>>)
                /\ driverName(frame[g].id, frame[g].version) \notin DOMAIN items)
    /\ [](\A p \in Pairs : Fails(p) => stored[p] = 0 /\ built[p] = 0)
    /\ [][\A g \in Goroutines :
            ~ReturnedNothing(g) /\ ReturnedNothing(g)'
                => items' = items /\ stored' = stored]_vars

\* with s-1 in the cache, a call for j-1 (not a JSON document) has returned
\* nothing
C16_Witness ==
    \E g \in Goroutines :
        /\ ReturnedNothing(g)
        /\ frame[g].id = <<"j">>
        /\ DOMAIN items = {<<"s", "1">>}

-----------------------------------------------------------------------------
(* The registry asked for pairs whose names collide *)

NamesNext ==
    \E g \in Goroutines :
        \/ \E p \in AllPairs : Call(g, p[1], p[2])
        \/ getItem_Lock(g)
        \/ getItem_Lookup(g)
        \/ getItem_Unlock(g)
        \/ Open(g)
        \/ ReadAll(g)
        \/ Unmarshal(g)
        \/ Build(g)
        \/ Insert_Lock(g)
        \/ Insert_Store(g)
        \/ Insert_Unlock(g)
        \/ Return(g)

SpecNames == Init /\ [][NamesNext]_vars

\* C24: a successful GetDriverItem(id, version) returns the item built from
\* the descriptor of that exact pair (the document at itemPath(id, version)),
\* never the item stored for another pair.
C24_ExactPairOnly ==
    \A g \in Goroutines :
        pc[g] = "returned" /\ frame[g].driverFound /\ ~frame[g].driver.nil =>
            /\ PathOf(g) \in DOMAIN Files
            /\ frame[g].driver.v.HDesc = Files[PathOf(g)].hd

-----------------------------------------------------------------------------
(* The shared rule's specification: a rule is compiled once, then the
   goroutines call Translate on it without synchronization, each call being
   two steps (the lookup, then the scaling) *)

\* {}   {a: 10}   {map: "(1,5)", a: 2}   {map: "(1,OPEN);(OPEN,2)", a: 1/2}
SharedFormulas ==
    {[Map |-> <<>>, hasA |-> FALSE, A |-> Zero],
     [Map |-> <<>>, hasA |-> TRUE, A |-> Rat(10, 1)],
     [Map |-> <<"(", "1", ",", "5", ")">>, hasA |-> TRUE, A |-> Rat(2, 1)],
     [Map |-> <<"(", "1", ",", "O", "P", "E", "N", ")", ";",
                "(", "O", "P", "E", "N", ",", "2", ")">>,
      hasA |-> TRUE, A |-> Rat(1, 2)]}

SharedInputs ==
    {GoInt(1), GoInt64(1), F64(1, 2), F64(3, 1), Bool(TRUE), Nil,
     Str(<<"O", "P", "E", "N">>), Str(<<"5">>)}

\* the variables Translate leaves alone, the rule apart
restVars == <<formula, formulaExit, forceToString, op, data, looked, result, panicked,
              itemVars, items, mutex, built, stored, dbusVars>>

\* goroutine g calls t.Translate(x)
Translate_Call(g, x) ==
    /\ op = "init"
    /\ pc[g] = "idle"
    /\ frame' = [frame EXCEPT ![g] = [ZeroFrame EXCEPT !.data = x]]
    /\ Goto(g, "translateMap")
    /\ UNCHANGED <<t, restVars>>

\* the lookup step storing the input of a miss in the table
Translate_Map_CachesMiss(g) ==
    /\ pc[g] = "translateMap"
    /\ \E o \in translateMap(t, frame[g].data) :
          /\ frame' = [frame EXCEPT ![g].value = o.v, ![g].panic = o.panic]
          /\ Goto(g, IF o.panic THEN "panicked" ELSE "translateCoeff")
          /\ t' = IF o.panic \/ o.v # frame[g].data THEN t
                  ELSE [t EXCEPT !.Map = MapSet(t.Map, frame[g].data, o.v)]
    /\ UNCHANGED restVars

\* value := t.translateMap(data)
Translate_Map(g) ==
    /\ pc[g] = "translateMap"
    /\ \E o \in translateMap(t, frame[g].data) :
          /\ frame' = [frame EXCEPT ![g].value = o.v, ![g].panic = o.panic]
          /\ Goto(g, IF o.panic THEN "panicked" ELSE "translateCoeff")
    /\ UNCHANGED <<t, restVars>>

\* if t.A != 1 { value = t.translateCoeff(value) }
Translate_Coeff(g) ==
    /\ pc[g] = "translateCoeff"
    /\ frame' = [frame EXCEPT ![g].value = IF t.A # One THEN translateCoeff(t, @) ELSE @]
    /\ Goto(g, "translated")
    /\ UNCHANGED <<t, restVars>>

\* return value
Translate_Return(g) ==
    /\ pc[g] = "translated"
    /\ frame' = [frame EXCEPT ![g] = ZeroFrame]
    /\ Goto(g, "idle")
    /\ UNCHANGED <<t, restVars>>

SharedNext ==
    \/ \E f \in SharedFormulas, force \in BOOLEAN : CallInit(f, TRUE, force)
    \/ \E g \in Goroutines :
          \/ \E x \in SharedInputs : Translate_Call(g, x)
          \/ Translate_Map(g)
          \/ Translate_Coeff(g)
          \/ Translate_Return(g)

SpecShared == Init /\ [][SharedNext]_vars

-----------------------------------------------------------------------------
(* Properties of the shared rule, checked under SpecShared *)

\* what a call of Translate running alone yields on rule tr for input d
Sequential(tr, d) == {[panic |-> o.panic, v |-> o.v] : o \in Translate(tr, d)}

\* C17: once compiled, a rule is never written: no step of Translate changes
\* its table, coefficient or field, on a hit or a miss, scaled or not; so
\* each of the calls running at the same time on one rule ends with the
\* result the call has when it runs alone.
C17_RuleReadOnly ==
    /\ [][op = "init" => t' = t]_vars
    /\ [](op = "init" => t = init(NewTranslation, formula, formulaExit, forceToString))
    /\ [](\A g \in Goroutines :
            pc[g] \in {"translated", "panicked"} =>
                [panic |-> frame[g].panic, v |-> frame[g].value]
                    \in Sequential(t, frame[g].data))

\* both goroutines have translated at the same time on a rule with a table
\* and a coefficient: one hit the table, the other missed and was scaled
C17_Witness ==
    /\ op = "init" /\ t.Map # <<>> /\ t.A # One
    /\ pc["g1"] = "translated" /\ pc["g2"] = "translated"
    /\ frame["g1"].data = GoInt(1) /\ frame["g1"].value # GoInt(1)
    /\ frame["g2"].data = F64(3, 1) /\ frame["g2"].value # F64(3, 1)

-----------------------------------------------------------------------------
(* The table's specification: init on map texts whose tuples repeat a key or
   misplace their parentheses, then Translate on the table *)

\* 1,OPEN   (1,OPEN   ((1),OP(EN))   (1.0,X)   (NaN,a)   (nan,b)   (true,T)
KeyTuples ==
    {<<"1", ",", "O", "P", "E", "N">>,
     <<"(", "1", ",", "O", "P", "E", "N">>,
     <<"(", "(", "1", ")", ",", "O", "P", "(", "E", "N", ")", ")">>,
     <<"(", "1", ".", "0", ",", "X", ")">>,
     <<"(", "N", "a", "N", ",", "a", ")">>,
     <<"(", "n", "a", "n", ",", "b", ")">>,
     <<"(", "t", "r", "u", "e", ",", "T", ")">>}

KeyTexts == {Join(ts) : ts \in SeqsUpTo(KeyTuples, MaxTuples)}

KeyFormulas == {[Map |-> m, hasA |-> FALSE, A |-> Zero] : m \in KeyTexts}

KeyInputs ==
    {GoInt(1), GoInt64(1), F64(1, 1), NaN, Bool(TRUE), Nil,
     Str(<<"1">>), Str(<<"O", "P", "E", "N">>)}

CompileKeys == \E f \in KeyFormulas, force \in BOOLEAN : CallInit(f, TRUE, force)

LookupKeys == \E x \in KeyInputs : CallTranslate(x)

SpecKeys == Init /\ [][CompileKeys \/ LookupKeys]_vars

-----------------------------------------------------------------------------
(* Properties of the table, checked under SpecKeys *)

\* the entries of table m that the lookup of x matches
Matching(m, x) == {i \in 1..Len(m) : KeyMatches(m[i].k, x)}

\* table m scanned in the order p
Reordered(m, p) == [i \in 1..Len(m) |-> m[p[i]]]

\* C18 as stated: no two entries of a compiled table have the same coerced
\* key (tuples whose keys coerce to the same value make one entry).
C18_SameKeySingleEntry ==
    Compiled =>
        \A i, j \in 1..Len(t.Map) : t.Map[i].k = t.Map[j].k => i = j

\* C18: no two entries of a compiled table have keys that are equal under
\* Go's == (tuples whose keys coerce to equal values make one entry, that of
\* the last one; NaN equals nothing, itself included, so each NaN key makes
\* an entry of its own, which no input matches); every input matches at most
\* one entry, and Translate yields one outcome whatever the order of the scan.
C18_KeysUniqueUnderEquality ==
    /\ Compiled =>
          /\ \A i, j \in 1..Len(t.Map) :
                t.Map[i].k = t.Map[j].k => i = j \/ IsNaN(t.Map[i].k)
          /\ Len(t.Map) =
                Cardinality({convert(Field1(MapTokens[j])) : j \in
                                {j \in 1..Len(MapTokens) :
                                    /\ WellFormed(MapTokens[j])
                                    /\ ~IsNaN(convert(Field1(MapTokens[j])))}})
                + Cardinality({j \in 1..Len(MapTokens) :
                                    /\ WellFormed(MapTokens[j])
                                    /\ IsNaN(convert(Field1(MapTokens[j])))})
          /\ \A x \in KeyInputs :
                /\ Cardinality(Matching(t.Map, x)) <= 1
                /\ IsNaN(x) => Matching(t.Map, x) = {}
                /\ \A p \in Permutations(1..Len(t.Map)) :
                      Translate([t EXCEPT !.Map = Reordered(t.Map, p)], x) = Translate(t, x)
    /\ op = "Translate" /\ formulaExit =>
          /\ Translate(t, data) = {[panic |-> panicked, looked |-> looked, v |-> result]}
          /\ Cardinality(Matching(t.Map, data)) <= 1

\* "1,OPEN;(1.0,X);(NaN,a)": the two tuples of key 1 made one entry, of value
\* X, and the int 1 was translated to it
C18_Witness ==
    /\ op = "Translate" /\ formulaExit
    /\ formula.Map = <<"1", ",", "O", "P", "E", "N", ";", "(", "1", ".", "0", ",", "X", ")",
                       ";", "(", "N", "a", "N", ",", "a", ")">>
    /\ Len(t.Map) = 2
    /\ data = GoInt(1)
    /\ result = Str(<<"X">>)

\* the three spellings of the tuple 1 -> OPEN
OpenTuples ==
    {<<"1", ",", "O", "P", "E", "N">>,
     <<"(", "1", ",", "O", "P", "E", "N">>,
     <<"(", "(", "1", ")", ",", "O", "P", "(", "E", "N", ")", ")">>}

HasParen(v) == v.t = "string" /\ \E i \in 1..Len(v.s) : v.s[i] \in {"(", ")"}

\* C19: every '(' and ')' of a token is removed before the token is split on
\* ',': a token is malformed only by its number of commas, no key and no
\* value holds a parenthesis, and "1,OPEN", "(1,OPEN" and "((1),OP(EN))" each
\* compile to the single entry 1 -> "OPEN".
C19_ParensStripped ==
    Compiled =>
        /\ \A i \in 1..Len(t.Map) : ~HasParen(t.Map[i].k) /\ ~HasParen(t.Map[i].v)
        /\ \A j \in 1..Len(MapTokens) :
              WellFormed(MapTokens[j]) =>
                  \E i \in 1..Len(t.Map) :
                      /\ t.Map[i].k = convert(Field1(MapTokens[j]))
                      /\ t.Map[i].v \in {Str(Field2(MapTokens[n])) : n \in 1..Len(MapTokens)}
                                        \cup {convert(Field2(MapTokens[n])) : n \in 1..Len(MapTokens)}
        /\ (\E j \in 1..Len(MapTokens) : WellFormed(MapTokens[j])) => t.Map # <<>>
        /\ formula.Map \in OpenTuples =>
              t.Map = <<[k |-> F64(1, 1), v |-> Str(<<"O", "P", "E", "N">>)]>>

\* "((1),OP(EN))" compiled to 1 -> "OPEN"
C19_Witness ==
    /\ Compiled
    /\ formula.Map = <<"(", "(", "1", ")", ",", "O", "P", "(", "E", "N", ")", ")">>
    /\ t.Map = <<[k |-> F64(1, 1), v |-> Str(<<"O", "P", "E", "N">>)]>>

-----------------------------------------------------------------------------
(* Properties of the compilation of a present formula, checked under Spec *)

\* x * a as translateCoeff returns it: an int64, the product truncated, when
\* a > 1, and a float64 otherwise
Scaled(x, a) ==
    IF a.n > a.d THEN GoInt64(Trunc(x.n * a.n, x.d * a.d))
    ELSE F64(x.n * a.n, x.d * a.d)

\* C20: the rule compiled from a present formula has the formula's a as
\* coefficient when a is declared and 1 otherwise, and no table when the map
\* text is empty; so a present formula with no a and an empty map translates
\* every x to x, and one with only a declared scales the numbers and nothing
\* else.
C20_PresentFormula ==
    /\ op # "new" /\ formulaExit =>
          /\ t.A = IF formula.hasA THEN formula.A ELSE One
          /\ formula.Map = <<>> => t.Map = <<>>
          /\ t.Field = NewTranslation.Field
    /\ Translated /\ formulaExit /\ formula.Map = <<>> =>
          /\ ~panicked
          /\ looked = data
          /\ ~formula.hasA => result = data
          /\ formula.hasA =>
                result = IF data.t \in {"int", "int64", "float32", "float64"}
                            /\ formula.A # One
                         THEN Scaled(data, formula.A)
                         ELSE data

\* a present formula with no a and an empty map returned the int 3 as it is
C20_Witness ==
    /\ Translated /\ formulaExit
    /\ formula = [Map |-> <<>>, hasA |-> FALSE, A |-> Zero]
    /\ t.A = One /\ t.Map = <<>>
    /\ data = GoInt(3)
    /\ result = GoInt(3)

-----------------------------------------------------------------------------
(* dbusconn: the methods of Protocol, RootProto, Device and Module, each run
   by a goroutine of the D-Bus connection.  A method is a sequence of steps:
   each Lock() is a step that waits for the Mutex, the code between a Lock()
   and the next Lock() (or the return) is one step *)

coreVars == <<t, formula, formulaExit, forceToString, op, data, looked, result,
              panicked, itemVars, managerVars>>

notProto == <<coreVars, propVars>>

\* the calls of AddDevice that have not allocated their Device yet
Allocating(name) ==
    Cardinality({g \in Goroutines : proc[g].op = name /\ proc[g].pc \in {"lock", "run"}})

\* goroutine g enters method name of Protocol p / Device d
Invoke(g, name, p, d, id, typeID) ==
    /\ proc[g].pc = "idle"
    /\ proc' = [proc EXCEPT ![g] = [ZeroProc EXCEPT !.pc = "lock", !.op = name, !.p = p,
                                                    !.d = d, !.id = id, !.typeID = typeID]]
    /\ UNCHANGED <<protoObjs, nprotos, Bridges, rootCallbacks, deviceObjs, ndevs, module, notProto>>

\* p.Lock() at the start of method name of Protocol
LockProtocol(g, name) ==
    /\ proc[g].pc = "lock" /\ proc[g].op = name
    /\ protoObjs[proc[g].p].lock = Unlocked
    /\ protoObjs' = [protoObjs EXCEPT ![proc[g].p].lock = g]
    /\ proc' = [proc EXCEPT ![g].pc = "run"]
    /\ UNCHANGED <<nprotos, Bridges, rootCallbacks, deviceObjs, ndevs, module, notProto>>

\* device.Lock() at the start of method name of Device
LockDevice(g, name) ==
    /\ proc[g].pc = "lock" /\ proc[g].op = name
    /\ deviceObjs[proc[g].d].lock = Unlocked
    /\ deviceObjs' = [deviceObjs EXCEPT ![proc[g].d].lock = g]
    /\ proc' = [proc EXCEPT ![g].pc = "run"]
    /\ UNCHANGED <<protoObjs, nprotos, Bridges, rootCallbacks, ndevs, module, notProto>>

\* the callback scheduled by `go cb.Method(...)` when cb is not nil
Scheduled(registered, name, a, b) == IF registered THEN <<<<name, a, b>>>> ELSE <<>>

\* the method returns to its caller: the D-Bus reply, or RemoveBridge's loop
Back(g) == IF proc[g].caller = "RemoveBridge" THEN "loop" ELSE "returned"

OpBack(g) == IF proc[g].caller = "RemoveBridge" THEN "RemoveBridge" ELSE proc[g].op

\* the user sets p.Callbacks
SetProtocolCallbacks(p) ==
    /\ p <= nprotos
    /\ ~protoObjs[p].Callbacks
    /\ protoObjs' = [protoObjs EXCEPT ![p].Callbacks = TRUE]
    /\ UNCHANGED <<nprotos, Bridges, rootCallbacks, deviceObjs, ndevs, module, proc, notProto>>

\* the user sets r.Callbacks
SetRootCallbacks ==
    /\ ~rootCallbacks
    /\ rootCallbacks' = TRUE
    /\ UNCHANGED <<protoObjs, nprotos, Bridges, deviceObjs, ndevs, module, proc, notProto>>

\* the reply of the method is sent
Reply(g) ==
    /\ proc[g].pc = "returned"
    /\ proc' = [proc EXCEPT ![g] = ZeroProc]
    /\ UNCHANGED <<protoObjs, nprotos, Bridges, rootCallbacks, deviceObjs, ndevs, module, notProto>>

\* p.AddDevice(devID, comID, typeID, typeVersion, options)
Call_AddDevice(g, p, devID, typeID) ==
    /\ p <= nprotos
    /\ ndevs + Allocating("AddDevice") < MaxDevices
    /\ Invoke(g, "AddDevice", p, 0, devID, typeID)

AddDevice_Lock(g) == LockProtocol(g, "AddDevice")

\* an AddDevice that replaces the device of a devID already present
AddDevice_Overwrites(g) ==
    /\ proc[g].pc = "run" /\ proc[g].op = "AddDevice"
    /\ LET p == proc[g].p
           devID == proc[g].id
           alreadyAdded == devID \in DOMAIN protoObjs[p].Devices
           d == ndevs + 1
       IN  /\ deviceObjs' = [deviceObjs EXCEPT ![d] = NewDevice(devID, proc[g].typeID, p)]
           /\ ndevs' = d
           /\ protoObjs' = [protoObjs EXCEPT ![p].Devices = Store(@, devID, d),
                                             ![p].lock = Unlocked]
           /\ proc' = [proc EXCEPT ![g].pc = "returned", ![g].ret = alreadyAdded]
    /\ UNCHANGED <<nprotos, Bridges, rootCallbacks, module, notProto>>

\* AddDevice from the lookup to the return
AddDevice_Run(g) ==
    /\ proc[g].pc = "run" /\ proc[g].op = "AddDevice"
    /\ LET p == proc[g].p
           devID == proc[g].id
           alreadyAdded == devID \in DOMAIN protoObjs[p].Devices
           d == ndevs + 1
       IN  IF ~alreadyAdded
           THEN /\ deviceObjs' = [deviceObjs EXCEPT ![d] = NewDevice(devID, proc[g].typeID, p)]
                /\ ndevs' = d
                /\ protoObjs' = [protoObjs EXCEPT ![p].Devices = Store(@, devID, d),
                                                  ![p].lock = Unlocked]
                /\ proc' = [proc EXCEPT
                              ![g].pc = "returned",
                              ![g].ret = FALSE,
                              ![g].cbs = Scheduled(protoObjs[p].Callbacks, "AddDevice", devID, ""),
                              ![g].sigs = <<<<"DeviceAdded", devID, "">>>>]
           ELSE /\ protoObjs' = [protoObjs EXCEPT ![p].lock = Unlocked]
                /\ proc' = [proc EXCEPT ![g].pc = "returned", ![g].ret = TRUE]
                /\ UNCHANGED <<deviceObjs, ndevs>>
    /\ UNCHANGED <<nprotos, Bridges, rootCallbacks, module, notProto>>

\* p.RemoveDevice(devID)
Call_RemoveDevice(g, p, devID) ==
    /\ p <= nprotos
    /\ Invoke(g, "RemoveDevice", p, 0, devID, "")

RemoveDevice_Lock(g) == LockProtocol(g, "RemoveDevice")

\* device, devicePresent := p.Devices[devID]; absent: p.Unlock(), return nil
RemoveDevice_Lookup(g) ==
    /\ proc[g].pc = "run" /\ proc[g].op = "RemoveDevice"
    /\ LET p == proc[g].p
           devID == proc[g].id
       IN  IF devID \in DOMAIN protoObjs[p].Devices
           THEN /\ proc' = [proc EXCEPT ![g].pc = "deviceLock",
                                        ![g].d = protoObjs[p].Devices[devID]]
                /\ UNCHANGED protoObjs
           ELSE /\ protoObjs' = [protoObjs EXCEPT ![p].lock = Unlocked]
                /\ proc' = [proc EXCEPT ![g].pc = Back(g), ![g].op = OpBack(g),
                                        ![g].caller = ""]
    /\ UNCHANGED <<nprotos, Bridges, rootCallbacks, deviceObjs, ndevs, module, notProto>>

\* device.Lock()
RemoveDevice_DeviceLock(g) ==
    /\ proc[g].pc = "deviceLock" /\ proc[g].op = "RemoveDevice"
    /\ deviceObjs[proc[g].d].lock = Unlocked
    /\ deviceObjs' = [deviceObjs EXCEPT ![proc[g].d].lock = g]
    /\ proc' = [proc EXCEPT ![g].pc = "finish"]
    /\ UNCHANGED <<protoObjs, nprotos, Bridges, rootCallbacks, ndevs, module, notProto>>

\* the items are deleted, the callback is scheduled, device.Unlock(), the
\* device is deleted, DeviceRemoved is emitted, p.Unlock()
RemoveDevice_Finish(g) ==
    /\ proc[g].pc = "finish" /\ proc[g].op = "RemoveDevice"
    /\ LET p == proc[g].p
           devID == proc[g].id
       IN  /\ deviceObjs' = [deviceObjs EXCEPT ![proc[g].d].Items = NoEntries,
                                               ![proc[g].d].lock = Unlocked]
           /\ protoObjs' = [protoObjs EXCEPT ![p].Devices = Delete(@, devID),
                                             ![p].lock = Unlocked]
           /\ proc' = [proc EXCEPT
                         ![g].pc = Back(g), ![g].op = OpBack(g), ![g].caller = "",
                         ![g].cbs = @ \o Scheduled(protoObjs[p].Callbacks, "RemoveDevice", devID, ""),
                         ![g].sigs = @ \o <<<<"DeviceRemoved", devID, "">>>>]
    /\ UNCHANGED <<nprotos, Bridges, rootCallbacks, ndevs, module, notProto>>

\* device.AddItem(itemID, typeID, typeVersion, options) on an allocated Device
Call_AddItem(g, d, itemID, typeID) ==
    /\ d <= ndevs
    /\ Invoke(g, "AddItem", deviceObjs[d].protocol, d, itemID, typeID)

AddItem_Lock(g) == LockDevice(g, "AddItem")

\* an AddItem that replaces the item of an itemID already present
AddItem_Overwrites(g) ==
    /\ proc[g].pc = "run" /\ proc[g].op = "AddItem"
    /\ LET d == proc[g].d
           itemID == proc[g].id
       IN  /\ deviceObjs' = [deviceObjs EXCEPT ![d].Items = Store(@, itemID, proc[g].typeID),
                                               ![d].lock = Unlocked]
           /\ proc' = [proc EXCEPT ![g].pc = "returned",
                                   ![g].ret = itemID \in DOMAIN deviceObjs[d].Items]
    /\ UNCHANGED <<protoObjs, nprotos, Bridges, rootCallbacks, ndevs, module, notProto>>

\* AddItem from the lookup to the return
AddItem_Run(g) ==
    /\ proc[g].pc = "run" /\ proc[g].op = "AddItem"
    /\ LET d == proc[g].d
           itemID == proc[g].id
           devID == deviceObjs[d].DevID
       IN  IF itemID \notin DOMAIN deviceObjs[d].Items
           THEN /\ deviceObjs' = [deviceObjs EXCEPT ![d].Items = Store(@, itemID, proc[g].typeID),
                                                    ![d].lock = Unlocked]
                /\ proc' = [proc EXCEPT
                              ![g].pc = "returned",
                              ![g].ret = FALSE,
                              ![g].cbs = Scheduled(protoObjs[deviceObjs[d].protocol].Callbacks,
                                                   "AddItem", devID, itemID),
                              ![g].sigs = <<<<"ItemAdded", devID, itemID>>>>]
           ELSE /\ deviceObjs' = [deviceObjs EXCEPT ![d].lock = Unlocked]
                /\ proc' = [proc EXCEPT ![g].pc = "returned", ![g].ret = TRUE]
    /\ UNCHANGED <<protoObjs, nprotos, Bridges, rootCallbacks, ndevs, module, notProto>>

\* device.RemoveItem(itemID)
Call_RemoveItem(g, d, itemID) ==
    /\ d <= ndevs
    /\ Invoke(g, "RemoveItem", deviceObjs[d].protocol, d, itemID, "")

RemoveItem_Lock(g) == LockDevice(g, "RemoveItem")

\* RemoveItem from the lookup to the return; emitItemRemoved emits the signal
\* named by signalDeviceRemoved on the item's path
RemoveItem_Run(g) ==
    /\ proc[g].pc = "run" /\ proc[g].op = "RemoveItem"
    /\ LET d == proc[g].d
           itemID == proc[g].id
           devID == deviceObjs[d].DevID
       IN  IF itemID \in DOMAIN deviceObjs[d].Items
           THEN /\ deviceObjs' = [deviceObjs EXCEPT ![d].Items = Delete(@, itemID),
                                                    ![d].lock = Unlocked]
                /\ proc' = [proc EXCEPT
                              ![g].pc = "returned",
                              ![g].cbs = Scheduled(protoObjs[deviceObjs[d].protocol].Callbacks,
                                                   "RemoveItem", devID, itemID),
                              ![g].sigs = <<<<"DeviceRemoved", devID, itemID>>>>]
           ELSE /\ deviceObjs' = [deviceObjs EXCEPT ![d].lock = Unlocked]
                /\ proc' = [proc EXCEPT ![g].pc = "returned"]
    /\ UNCHANGED <<protoObjs, nprotos, Bridges, rootCallbacks, ndevs, module, notProto>>

\* p.Ready() on a Protocol that is not nil
Call_Ready(g, p) ==
    /\ p <= nprotos
    /\ Invoke(g, "Ready", p, 0, "", "")

Ready_Lock(g) == LockProtocol(g, "Ready")

\* p.ready = true; p.Unlock()
Ready_Run(g) ==
    /\ proc[g].pc = "run" /\ proc[g].op = "Ready"
    /\ protoObjs' = [protoObjs EXCEPT ![proc[g].p].ready = TRUE, ![proc[g].p].lock = Unlocked]
    /\ proc' = [proc EXCEPT ![g].pc = "returned"]
    /\ UNCHANGED <<nprotos, Bridges, rootCallbacks, deviceObjs, ndevs, module, notProto>>

\* p.IsReady()
Call_IsReady(g, p) ==
    /\ p <= nprotos
    /\ Invoke(g, "IsReady", p, 0, "", "")

IsReady_Lock(g) == LockProtocol(g, "IsReady")

\* an IsReady that answers false whatever p.ready is
IsReady_AnswersFalse(g) ==
    /\ proc[g].pc = "run" /\ proc[g].op = "IsReady"
    /\ protoObjs' = [protoObjs EXCEPT ![proc[g].p].lock = Unlocked]
    /\ proc' = [proc EXCEPT ![g].pc = "returned", ![g].ret = FALSE]
    /\ UNCHANGED <<nprotos, Bridges, rootCallbacks, deviceObjs, ndevs, module, notProto>>

\* ready = p.ready; p.Unlock(); return ready, nil
IsReady_Run(g) ==
    /\ proc[g].pc = "run" /\ proc[g].op = "IsReady"
    /\ protoObjs' = [protoObjs EXCEPT ![proc[g].p].lock = Unlocked]
    /\ proc' = [proc EXCEPT ![g].pc = "returned", ![g].ret = protoObjs[proc[g].p].ready]
    /\ UNCHANGED <<nprotos, Bridges, rootCallbacks, deviceObjs, ndevs, module, notProto>>

\* m.setReady()
Call_setReady(g) == Invoke(g, "setReady", 0, 0, "", "")

\* m.Lock() at the start of method name of Module
LockModule(g, name) ==
    /\ proc[g].pc = "lock" /\ proc[g].op = name
    /\ module.lock = Unlocked
    /\ module' = [module EXCEPT !.lock = g]
    /\ proc' = [proc EXCEPT ![g].pc = "run"]
    /\ UNCHANGED <<protoObjs, nprotos, Bridges, rootCallbacks, deviceObjs, ndevs, notProto>>

setReady_Lock(g) == LockModule(g, "setReady")

\* m.ready = true; m.Unlock()
setReady_Run(g) ==
    /\ proc[g].pc = "run" /\ proc[g].op = "setReady"
    /\ module' = [ready |-> TRUE, lock |-> Unlocked]
    /\ proc' = [proc EXCEPT ![g].pc = "returned"]
    /\ UNCHANGED <<protoObjs, nprotos, Bridges, rootCallbacks, deviceObjs, ndevs, notProto>>

\* m.IsReady()
Call_ModuleIsReady(g) == Invoke(g, "Module.IsReady", 0, 0, "", "")

ModuleIsReady_Lock(g) == LockModule(g, "Module.IsReady")

\* ready = m.ready; m.Unlock(); return ready, nil
ModuleIsReady_Run(g) ==
    /\ proc[g].pc = "run" /\ proc[g].op = "Module.IsReady"
    /\ module' = [module EXCEPT !.lock = Unlocked]
    /\ proc' = [proc EXCEPT ![g].pc = "returned", ![g].ret = module.ready]
    /\ UNCHANGED <<protoObjs, nprotos, Bridges, rootCallbacks, deviceObjs, ndevs, notProto>>

\* one protocol (the root protocol), its devices and their items, and the
\* module, used by concurrent goroutines
ProtocolNext ==
    \/ SetProtocolCallbacks(0)
    \/ \E g \in Goroutines :
        \/ \E devID \in DevIDs : Call_AddDevice(g, 0, devID, DeviceType)
        \/ AddDevice_Lock(g)
        \/ AddDevice_Run(g)
        \/ \E devID \in DevIDs : Call_RemoveDevice(g, 0, devID)
        \/ RemoveDevice_Lock(g)
        \/ RemoveDevice_Lookup(g)
        \/ RemoveDevice_DeviceLock(g)
        \/ RemoveDevice_Finish(g)
        \/ \E d \in DevObjs, itemID \in ItemIDs : Call_AddItem(g, d, itemID, "t1")
        \/ AddItem_Lock(g)
        \/ AddItem_Run(g)
        \/ Reply(g)

SpecProtocol == Init /\ [][ProtocolNext]_vars

\* the items of the devices of one protocol, added and removed by concurrent
\* goroutines
DeviceNext ==
    \/ SetProtocolCallbacks(0)
    \/ \E g \in Goroutines :
        \/ \E devID \in DevIDs : Call_AddDevice(g, 0, devID, DeviceType)
        \/ AddDevice_Lock(g)
        \/ AddDevice_Run(g)
        \/ \E d \in DevObjs, itemID \in ItemIDs, typeID \in TypeIDs : Call_AddItem(g, d, itemID, typeID)
        \/ AddItem_Lock(g)
        \/ AddItem_Run(g)
        \/ \E d \in DevObjs, itemID \in ItemIDs : Call_RemoveItem(g, d, itemID)
        \/ RemoveItem_Lock(g)
        \/ RemoveItem_Run(g)
        \/ Reply(g)

SpecDevice == Init /\ [][DeviceNext]_vars

\* the readiness of one protocol and of the module, set and read by
\* concurrent goroutines while devices are added and removed
ReadyNext ==
    \E g \in Goroutines :
        \/ Call_Ready(g, 0)
        \/ Ready_Lock(g)
        \/ Ready_Run(g)
        \/ Call_IsReady(g, 0)
        \/ IsReady_Lock(g)
        \/ IsReady_Run(g)
        \/ Call_setReady(g)
        \/ setReady_Lock(g)
        \/ setReady_Run(g)
        \/ Call_ModuleIsReady(g)
        \/ ModuleIsReady_Lock(g)
        \/ ModuleIsReady_Run(g)
        \/ \E devID \in DevIDs : Call_AddDevice(g, 0, devID, DeviceType)
        \/ AddDevice_Lock(g)
        \/ AddDevice_Run(g)
        \/ Reply(g)

SpecReady == Init /\ [][ReadyNext]_vars

-----------------------------------------------------------------------------
(* Properties of the registries of devices and items and of readiness *)

\* the step makes goroutine g return from method name
Returning(g, name) ==
    proc[g].op = name /\ proc[g].pc # "returned" /\ proc'[g].pc = "returned"

\* the values of map m
Values(m) == {m[k] : k \in DOMAIN m}

\* goroutine g holds no Mutex
HoldsNothing(g) ==
    /\ \A p \in ProtoIds : protoObjs[p].lock # g
    /\ \A d \in DevObjs : deviceObjs[d].lock # g
    /\ module.lock # g

\* C25: on one protocol, under any interleaving of AddDevice and RemoveDevice
\* (and of AddItem on its devices): the device map changes only when AddDevice
\* adds an absent devID and when RemoveDevice removes a present one, so it
\* holds exactly the devIDs added and not removed since; AddDevice of an
\* absent devID returns false and adds one new device without item, of a
\* present devID returns true and changes neither the map nor any device;
\* RemoveDevice of a present devID removes it and all its items, of an absent
\* one changes nothing; a call that has returned holds no lock.
C25_DeviceRegistry ==
    /\ [](\A g \in Goroutines : proc[g].pc \in {"idle", "returned"} => HoldsNothing(g))
    /\ [](\A devID \in DOMAIN protoObjs[0].Devices :
            /\ protoObjs[0].Devices[devID] \in 1..ndevs
            /\ deviceObjs[protoObjs[0].Devices[devID]].DevID = devID)
    /\ [][LET D == protoObjs[0].Devices
          IN  /\ \A g \in Goroutines :
                    Returning(g, "AddDevice") =>
                        IF proc[g].id \in DOMAIN D
                        THEN /\ proc'[g].ret = TRUE
                             /\ protoObjs'[0].Devices = D
                             /\ deviceObjs' = deviceObjs
                        ELSE /\ proc'[g].ret = FALSE
                             /\ DOMAIN protoObjs'[0].Devices = DOMAIN D \cup {proc[g].id}
                             /\ \A k \in DOMAIN D : protoObjs'[0].Devices[k] = D[k]
                             /\ protoObjs'[0].Devices[proc[g].id] \notin Values(D)
                             /\ deviceObjs'[protoObjs'[0].Devices[proc[g].id]]
                                    = NewDevice(proc[g].id, proc[g].typeID, 0)
                             /\ \A d \in DevObjs \ {protoObjs'[0].Devices[proc[g].id]} :
                                    deviceObjs'[d] = deviceObjs[d]
              /\ \A g \in Goroutines :
                    Returning(g, "RemoveDevice") =>
                        IF proc[g].id \in DOMAIN D
                        THEN /\ protoObjs'[0].Devices = Delete(D, proc[g].id)
                             /\ deviceObjs'[D[proc[g].id]].Items = NoEntries
                        ELSE /\ protoObjs'[0].Devices = D
                             /\ deviceObjs' = deviceObjs
              /\ (\A g \in Goroutines :
                    ~Returning(g, "AddDevice") /\ ~Returning(g, "RemoveDevice"))
                        => protoObjs'[0].Devices = D]_vars

\* d1 and its item were removed by one goroutine after the other was told
\* that d2 is already there
C25_Witness ==
    \E g, h \in Goroutines :
        /\ proc[g].op = "RemoveDevice" /\ proc[g].pc = "returned" /\ proc[g].id = "d1"
        /\ proc[g].sigs = <<<<"DeviceRemoved", "d1", "">>>>
        /\ proc[h].op = "AddDevice" /\ proc[h].pc = "returned" /\ proc[h].ret
        /\ DOMAIN protoObjs[0].Devices = {"d2"}
        /\ \E d \in DevObjs : deviceObjs[d].DevID = "d1" /\ deviceObjs[d].Items = NoEntries

\* C27: AddItem of an absent itemID returns false, adds exactly that item,
\* emits ItemAdded once and schedules the AddItem callback once (the
\* protocol's Callbacks being set; nothing is scheduled when they are nil);
\* of a present itemID it returns true and changes no item, with no callback
\* and no signal.  RemoveItem of a present itemID removes it with one
\* callback and one signal, of an absent one does nothing.  No other step
\* changes the items, and a call that has returned holds no lock.
C27_ItemRegistry ==
    /\ [](\A g \in Goroutines : proc[g].pc \in {"idle", "returned"} => HoldsNothing(g))
    /\ [][/\ \A g \in Goroutines :
                Returning(g, "AddItem") =>
                    LET d == proc[g].d
                        I == deviceObjs[d].Items
                        registered == protoObjs[deviceObjs[d].protocol].Callbacks
                    IN  IF proc[g].id \in DOMAIN I
                        THEN /\ proc'[g].ret = TRUE
                             /\ \A e \in DevObjs : deviceObjs'[e].Items = deviceObjs[e].Items
                             /\ proc'[g].cbs = <<>> /\ proc'[g].sigs = <<>>
                        ELSE /\ proc'[g].ret = FALSE
                             /\ deviceObjs'[d].Items = Store(I, proc[g].id, proc[g].typeID)
                             /\ \A e \in DevObjs \ {d} : deviceObjs'[e].Items = deviceObjs[e].Items
                             /\ proc'[g].sigs = <<<<"ItemAdded", deviceObjs[d].DevID, proc[g].id>>>>
                             /\ proc'[g].cbs = IF registered
                                               THEN <<<<"AddItem", deviceObjs[d].DevID, proc[g].id>>>>
                                               ELSE <<>>
          /\ \A g \in Goroutines :
                Returning(g, "RemoveItem") =>
                    LET d == proc[g].d
                        I == deviceObjs[d].Items
                        registered == protoObjs[deviceObjs[d].protocol].Callbacks
                    IN  IF proc[g].id \in DOMAIN I
                        THEN /\ deviceObjs'[d].Items = Delete(I, proc[g].id)
                             /\ \A e \in DevObjs \ {d} : deviceObjs'[e].Items = deviceObjs[e].Items
                             /\ Len(proc'[g].sigs) = 1
                             /\ proc'[g].cbs = IF registered
                                               THEN <<<<"RemoveItem", deviceObjs[d].DevID, proc[g].id>>>>
                                               ELSE <<>>
                        ELSE /\ \A e \in DevObjs : deviceObjs'[e].Items = deviceObjs[e].Items
                             /\ proc'[g].cbs = <<>> /\ proc'[g].sigs = <<>>
          /\ (\A g \in Goroutines : ~Returning(g, "AddItem") /\ ~Returning(g, "RemoveItem"))
                => \A e \in DevObjs : deviceObjs[e].DevID # ""
                                        => deviceObjs'[e].Items = deviceObjs[e].Items]_vars

\* one goroutine was told that i1 is already there (the item keeps the type
\* it was added with) while the other has removed the item of another device
C27_Witness ==
    \E g, h \in Goroutines :
        /\ proc[g].op = "AddItem" /\ proc[g].pc = "returned" /\ proc[g].ret
        /\ proc[g].typeID = "t2" /\ deviceObjs[proc[g].d].Items = [k \in {"i1"} |-> "t1"]
        /\ proc[h].op = "RemoveItem" /\ proc[h].pc = "returned"
        /\ proc[h].cbs = <<<<"RemoveItem", "d2", "i1">>>>
        /\ deviceObjs[proc[h].d].Items = NoEntries

\* C30: the protocol and the module start not ready; ready never goes back to
\* false, whatever the step; it becomes true only in Ready (setReady for the
\* module) and is true once Ready has returned; IsReady answers the value
\* ready has when it reads it, so false before any Ready and true after one.
C30_ReadyMonotonic ==
    /\ \A p \in ProtoIds : ~protoObjs[p].ready
    /\ ~module.ready
    /\ [](\A g \in Goroutines :
            /\ proc[g].op = "Ready" /\ proc[g].pc = "returned" => protoObjs[proc[g].p].ready
            /\ proc[g].op = "setReady" /\ proc[g].pc = "returned" => module.ready
            /\ proc[g].op = "IsReady" /\ proc[g].pc = "returned" /\ proc[g].ret
                    => protoObjs[proc[g].p].ready
            /\ proc[g].op = "Module.IsReady" /\ proc[g].pc = "returned" /\ proc[g].ret
                    => module.ready)
    /\ [][/\ \A p \in ProtoIds :
                /\ protoObjs[p].ready => protoObjs'[p].ready
                /\ ~protoObjs[p].ready /\ protoObjs'[p].ready
                        => \E g \in Goroutines : Returning(g, "Ready") /\ proc[g].p = p
          /\ module.ready => module'.ready
          /\ ~module.ready /\ module'.ready => \E g \in Goroutines : Returning(g, "setReady")
          /\ \A g \in Goroutines :
                /\ Returning(g, "IsReady") => proc'[g].ret = protoObjs[proc[g].p].ready
                /\ Returning(g, "Module.IsReady") => proc'[g].ret = module.ready]_vars

\* an IsReady that read before Ready was answered false, one that read after
\* it was answered true, and a device was added since
C30_Witness ==
    \E g, h \in Goroutines :
        /\ proc[g].op = "IsReady" /\ proc[g].pc = "returned" /\ ~proc[g].ret
        /\ proc[h].op = "IsReady" /\ proc[h].pc = "returned" /\ proc[h].ret
        /\ protoObjs[0].ready /\ module.ready
        /\ DOMAIN protoObjs[0].Devices # {}

-----------------------------------------------------------------------------
(* dbusconn: the bridges of the root protocol *)

\* r.AddBridge(bridgeID)
Call_AddBridge(g, bridgeID) ==
    /\ nprotos + Allocating("AddBridge") < MaxBridges
    /\ Invoke(g, "AddBridge", 0, 0, bridgeID, "")

\* r.Protocol.Lock()
AddBridge_Lock(g) == LockProtocol(g, "AddBridge")

\* AddBridge from the lookup to the return; newProtocol fails when the
\* export of the properties or of the object fails, and AddBridge then
\* returns false, ErrMsgNoObject with r.Protocol still locked
AddBridge_Run(g) ==
    /\ proc[g].pc = "run" /\ proc[g].op = "AddBridge"
    /\ LET bridgeID == proc[g].id
           alreadyAdded == bridgeID \in DOMAIN Bridges
           b == nprotos + 1
       IN  IF ~alreadyAdded
           THEN \E created \in BOOLEAN :
                   IF ~created
                   THEN /\ proc' = [proc EXCEPT ![g].pc = "returned", ![g].ret = FALSE,
                                                ![g].err = "ErrMsgNoObject"]
                        /\ UNCHANGED <<protoObjs, nprotos, Bridges>>
                   ELSE /\ protoObjs' = [protoObjs EXCEPT ![b] = NewProtocol,
                                                          ![0].lock = Unlocked]
                        /\ nprotos' = b
                        /\ Bridges' = Store(Bridges, bridgeID, b)
                        /\ proc' = [proc EXCEPT
                                      ![g].pc = "returned",
                                      ![g].ret = FALSE,
                                      ![g].cbs = Scheduled(rootCallbacks, "AddBridge", bridgeID, ""),
                                      ![g].sigs = <<<<"BridgeAdded", bridgeID, "">>>>]
           ELSE /\ protoObjs' = [protoObjs EXCEPT ![0].lock = Unlocked]
                /\ proc' = [proc EXCEPT ![g].pc = "returned", ![g].ret = TRUE]
                /\ UNCHANGED <<nprotos, Bridges>>
    /\ UNCHANGED <<rootCallbacks, deviceObjs, ndevs, module, notProto>>

\* r.RemoveBridge(bridgeID)
Call_RemoveBridge(g, bridgeID) ==
    /\ Invoke(g, "RemoveBridge", 0, 0, bridgeID, "")

\* r.Protocol.Lock()
RemoveBridge_Lock(g) == LockProtocol(g, "RemoveBridge")

\* bridge, bridgePresent := r.dc.Bridges[bridgeID]; absent: unlock and return
RemoveBridge_Lookup(g) ==
    /\ proc[g].pc = "run" /\ proc[g].op = "RemoveBridge"
    /\ IF proc[g].id \in DOMAIN Bridges
       THEN /\ proc' = [proc EXCEPT ![g].pc = "bridgeLock", ![g].p = Bridges[proc[g].id],
                                    ![g].bridgeID = proc[g].id]
            /\ UNCHANGED protoObjs
       ELSE /\ protoObjs' = [protoObjs EXCEPT ![0].lock = Unlocked]
            /\ proc' = [proc EXCEPT ![g].pc = "returned"]
    /\ UNCHANGED <<nprotos, Bridges, rootCallbacks, deviceObjs, ndevs, module, notProto>>

\* bridge.Protocol.Lock()
RemoveBridge_BridgeLock(g) ==
    /\ proc[g].pc = "bridgeLock" /\ proc[g].op = "RemoveBridge"
    /\ protoObjs[proc[g].p].lock = Unlocked
    /\ protoObjs' = [protoObjs EXCEPT ![proc[g].p].lock = g]
    /\ proc' = [proc EXCEPT ![g].pc = "loop"]
    /\ UNCHANGED <<nprotos, Bridges, rootCallbacks, deviceObjs, ndevs, module, notProto>>

\* for device := range bridge.Protocol.Devices: the call of
\* bridge.Protocol.RemoveDevice(device), which starts with p.Lock() on the
\* Mutex RemoveBridge holds
RemoveBridge_Loop(g) ==
    /\ proc[g].pc = "loop" /\ proc[g].op = "RemoveBridge"
    /\ protoObjs[proc[g].p].Devices # NoEntries
    /\ \E device \in DOMAIN protoObjs[proc[g].p].Devices :
          proc' = [proc EXCEPT ![g].pc = "lock", ![g].op = "RemoveDevice",
                               ![g].caller = "RemoveBridge", ![g].id = device]
    /\ UNCHANGED <<protoObjs, nprotos, Bridges, rootCallbacks, deviceObjs, ndevs, module, notProto>>

\* after the loop: the callback is scheduled, bridge.Protocol.Unlock(), the
\* bridge is deleted, BridgeRemoved is emitted, r.Protocol.Unlock()
RemoveBridge_Finish(g) ==
    /\ proc[g].pc = "loop" /\ proc[g].op = "RemoveBridge"
    /\ protoObjs[proc[g].p].Devices = NoEntries
    /\ protoObjs' = [protoObjs EXCEPT ![proc[g].p].lock = Unlocked, ![0].lock = Unlocked]
    /\ Bridges' = Delete(Bridges, proc[g].bridgeID)
    /\ proc' = [proc EXCEPT
                  ![g].pc = "returned",
                  ![g].id = proc[g].bridgeID,
                  ![g].cbs = @ \o Scheduled(rootCallbacks, "RemoveBridge", proc[g].bridgeID, ""),
                  ![g].sigs = @ \o <<<<"BridgeRemoved", proc[g].bridgeID, "">>>>]
    /\ UNCHANGED <<nprotos, rootCallbacks, deviceObjs, ndevs, module, notProto>>

\* the root protocol, its bridges and the devices of the bridges, used by
\* concurrent goroutines
BridgeNext ==
    \/ SetRootCallbacks
    \/ \E g \in Goroutines :
        \/ \E bridgeID \in BridgeIDs : Call_AddBridge(g, bridgeID)
        \/ AddBridge_Lock(g)
        \/ AddBridge_Run(g)
        \/ \E bridgeID \in BridgeIDs : Call_RemoveBridge(g, bridgeID)
        \/ RemoveBridge_Lock(g)
        \/ RemoveBridge_Lookup(g)
        \/ RemoveBridge_BridgeLock(g)
        \/ RemoveBridge_Loop(g)
        \/ RemoveBridge_Finish(g)
        \/ \E p \in ProtoIds \ {0}, devID \in DevIDs : Call_AddDevice(g, p, devID, DeviceType)
        \/ AddDevice_Lock(g)
        \/ AddDevice_Run(g)
        \/ \E p \in ProtoIds \ {0}, devID \in DevIDs : Call_RemoveDevice(g, p, devID)
        \/ RemoveDevice_Lock(g)
        \/ RemoveDevice_Lookup(g)
        \/ RemoveDevice_DeviceLock(g)
        \/ RemoveDevice_Finish(g)
        \/ Reply(g)

SpecBridge == Init /\ [][BridgeNext]_vars

-----------------------------------------------------------------------------
(* Properties of the bridges, checked under SpecBridge *)

\* the RemoveBridge of goroutine g waits, in the Lock() of the RemoveDevice it
\* called, for the Mutex it locked itself
SelfBlocked(g) ==
    /\ proc[g].caller = "RemoveBridge"
    /\ proc[g].op = "RemoveDevice" /\ proc[g].pc = "lock"
    /\ protoObjs[proc[g].p].lock = g

\* C22: RemoveBridge never waits for a lock its own call holds, and when it
\* has returned the bridge is out of the bridge map, the bridge's protocol has
\* no device and the call holds neither the root protocol's lock nor the
\* bridge protocol's.
C22_RemoveBridgeTerminates ==
    /\ [](\A g \in Goroutines : ~SelfBlocked(g))
    /\ [](\A g \in Goroutines :
            proc[g].op = "RemoveBridge" /\ proc[g].pc = "returned" => HoldsNothing(g))
    /\ [][\A g \in Goroutines :
            Returning(g, "RemoveBridge") /\ proc[g].id \in DOMAIN Bridges
                => /\ Bridges' = Delete(Bridges, proc[g].id)
                   /\ protoObjs'[Bridges[proc[g].id]].Devices = NoEntries]_vars

\* C23: when AddBridge has returned - bridge added, bridge already there, or
\* error - the call does not hold the root protocol's lock any more.
C23_AddBridgeUnlocks ==
    \A g \in Goroutines :
        proc[g].op = "AddBridge" /\ proc[g].pc = "returned" => protoObjs[0].lock # g

-----------------------------------------------------------------------------
(* dbusconn: the setters of a device, the timer of its reachability and the
   write of the LogLevel property.  One goroutine calls the setters; the timer
   runs reachabilityCBTimeout in a goroutine of its own *)

notProp == <<coreVars, protoVars>>

\* exportDeviceOnDbus (properties stay nil when the export fails) and the
\* user's settings of ReachabilityTimeout and ReacheabilityTimeoutCB
Configure(exported, timeout, callback) ==
    /\ ~dev.configured
    /\ dev' = [dev EXCEPT !.configured = TRUE, !.properties = exported,
                          !.ReachabilityTimeout = timeout,
                          !.ReacheabilityTimeoutCB = callback]
    /\ UNCHANGED <<props, timer, cb, call, logLevel, stats, notProp>>

\* a SetReachabilityState that arms the timer once and never re-arms it
SetReachabilityState_ArmsOnce(state) ==
    /\ dev.configured /\ call.pc = "idle"
    /\ IF ~dev.properties
       THEN /\ call' = [ZeroCall EXCEPT !.n = 1 - call.n, !.op = "SetReachabilityState", !.state = state]
            /\ UNCHANGED <<dev, timer, stats>>
       ELSE /\ call' = [ZeroCall EXCEPT !.n = 1 - call.n, !.op = "SetReachabilityState", !.state = state,
                                        !.pc = "get"]
            /\ IF dev.ReachabilityTimeout # 0 /\ state = "OK" /\ ~dev.timer
               THEN /\ dev' = [dev EXCEPT !.timer = TRUE]
                    /\ timer' = [armed |-> TRUE, remaining |-> dev.ReachabilityTimeout]
                    /\ stats' = [stats EXCEPT !.timers = @ + 1, !.sinceOk = 0]
               ELSE /\ stats' = [stats EXCEPT !.sinceOk = IF state = "OK" THEN 0 ELSE @]
                    /\ UNCHANGED <<dev, timer>>
    /\ UNCHANGED <<props, cb, logLevel, notProp>>

\* device.SetReachabilityState(state) up to the timer: return when properties
\* is nil; arm the timer (time.AfterFunc) or re-arm it (timer.Reset)
SetReachabilityState_Arm(state) ==
    /\ dev.configured /\ call.pc = "idle"
    /\ IF ~dev.properties
       THEN /\ call' = [ZeroCall EXCEPT !.n = 1 - call.n, !.op = "SetReachabilityState", !.state = state]
            /\ UNCHANGED <<dev, timer, stats>>
       ELSE /\ call' = [ZeroCall EXCEPT !.n = 1 - call.n, !.op = "SetReachabilityState", !.state = state,
                                        !.pc = "get"]
            /\ IF dev.ReachabilityTimeout # 0 /\ state = "OK"
               THEN /\ dev' = [dev EXCEPT !.timer = TRUE]
                    /\ timer' = [armed |-> TRUE, remaining |-> dev.ReachabilityTimeout]
                    /\ stats' = [stats EXCEPT !.timers = IF dev.timer THEN @ ELSE @ + 1,
                                              !.sinceOk = 0]
               ELSE UNCHANGED <<dev, timer, stats>>
    /\ UNCHANGED <<props, cb, logLevel, notProp>>

\* oldVariant, err := device.properties.Get(...); return when oldState == state
SetReachabilityState_Get ==
    /\ call.op = "SetReachabilityState" /\ call.pc = "get"
    /\ call' = [call EXCEPT !.old = props.ReachabilityState,
                            !.pc = IF props.ReachabilityState = call.state
                                   THEN "idle" ELSE "set"]
    /\ UNCHANGED <<dev, props, timer, cb, logLevel, stats, notProp>>

\* device.properties.SetMust(dbusDeviceInterface, propertyReachabilityState, state)
SetReachabilityState_SetMust ==
    /\ call.op = "SetReachabilityState" /\ call.pc = "set"
    /\ props' = [props EXCEPT !.ReachabilityState = call.state]
    /\ call' = [call EXCEPT !.pc = "idle",
                            !.published = <<<<"ReachabilityState", call.state>>>>]
    /\ UNCHANGED <<dev, timer, cb, logLevel, stats, notProp>>

\* one tick of the clock
Tick ==
    /\ timer.armed /\ timer.remaining > 0
    /\ timer' = [timer EXCEPT !.remaining = @ - 1]
    /\ stats' = [stats EXCEPT !.sinceOk = IF @ < Timeout THEN @ + 1 ELSE @]
    /\ UNCHANGED <<dev, props, cb, call, logLevel, notProp>>

\* the timer expires and starts reachabilityCBTimeout in its goroutine
Expire ==
    /\ timer.armed /\ timer.remaining = 0
    /\ cb.pc = "idle"
    /\ stats.expiries < MaxExpiries
    /\ timer' = [timer EXCEPT !.armed = FALSE]
    /\ cb' = [pc |-> "get", old |-> ""]
    /\ stats' = [stats EXCEPT !.expiries = @ + 1]
    /\ UNCHANGED <<dev, props, call, logLevel, notProp>>

\* reachabilityCBTimeout: d.SetReachabilityState(ReachabilityKo) up to
\* properties.Get
reachabilityCBTimeout_Get ==
    /\ cb.pc = "get"
    /\ cb' = [pc |-> IF props.ReachabilityState = "KO" THEN "wentKo" ELSE "set",
              old |-> props.ReachabilityState]
    /\ UNCHANGED <<dev, props, timer, call, logLevel, stats, notProp>>

\* reachabilityCBTimeout: properties.SetMust(..., ReachabilityKo)
reachabilityCBTimeout_SetMust ==
    /\ cb.pc = "set"
    /\ props' = [props EXCEPT !.ReachabilityState = "KO"]
    /\ cb' = [cb EXCEPT !.pc = "wentKo"]
    /\ UNCHANGED <<dev, timer, call, logLevel, stats, notProp>>

\* reachabilityCBTimeout: d.ReacheabilityTimeoutCB.ReachabilityWentKo(d) when
\* the callback is not nil
reachabilityCBTimeout_WentKo ==
    /\ cb.pc = "wentKo"
    /\ cb' = [pc |-> "idle", old |-> ""]
    /\ stats' = [stats EXCEPT !.wentKo = IF dev.ReacheabilityTimeoutCB THEN @ + 1 ELSE @]
    /\ UNCHANGED <<dev, props, timer, call, logLevel, notProp>>

\* device.SetVersion(newVersion)
SetVersion(newVersion) ==
    /\ dev.configured /\ call.pc = "idle"
    /\ IF ~dev.properties \/ dev.FirmwareVersion = newVersion
       THEN /\ call' = [ZeroCall EXCEPT !.n = 1 - call.n, !.op = "SetVersion", !.version = newVersion]
            /\ UNCHANGED props
       ELSE /\ props' = [props EXCEPT !.Version = newVersion]
            /\ call' = [ZeroCall EXCEPT !.n = 1 - call.n, !.op = "SetVersion", !.version = newVersion,
                                        !.published = <<<<"Version", newVersion>>>>]
    /\ UNCHANGED <<dev, timer, cb, logLevel, stats, notProp>>

\* r.setLogLevel(c), the callback of a write of c.Value to the LogLevel property
setLogLevel(value) ==
    /\ call.pc = "idle"
    /\ \E r \in {LogLevel(value)} :
          IF ~r.err
          THEN /\ logLevel' = r.level
               /\ call' = [ZeroCall EXCEPT !.n = 1 - call.n, !.op = "setLogLevel", !.value = value,
                                           !.err = "ErrMsgInvalidArg"]
          ELSE /\ call' = [ZeroCall EXCEPT !.n = 1 - call.n, !.op = "setLogLevel", !.value = value]
               /\ UNCHANGED logLevel
    /\ UNCHANGED <<dev, props, timer, cb, stats, notProp>>

PropertiesNext ==
    \/ \E exported \in BOOLEAN, timeout \in {0, Timeout}, callback \in BOOLEAN :
          Configure(exported, timeout, callback)
    \/ \E state \in {"OK", "KO"} : SetReachabilityState_Arm(state)
    \/ SetReachabilityState_Get
    \/ SetReachabilityState_SetMust
    \/ Tick
    \/ Expire
    \/ reachabilityCBTimeout_Get
    \/ reachabilityCBTimeout_SetMust
    \/ reachabilityCBTimeout_WentKo
    \/ \E newVersion \in Versions \cup {<<>>} : SetVersion(newVersion)
    \/ \E value \in LogLevelValues : setLogLevel(value)

SpecProperties == Init /\ [][PropertiesNext]_vars

-----------------------------------------------------------------------------
(* Properties of the setters, checked under SpecProperties *)

\* the step is the entry of the caller into setter name
Entering(name) ==
    /\ call.pc = "idle" /\ call'.op = name /\ call'.n # call.n
    /\ UNCHANGED <<cb, props.ReachabilityState>>
    /\ timer'.remaining >= timer.remaining
    /\ stats'.expiries = stats.expiries /\ stats'.wentKo = stats.wentKo

\* C26: for a device with exported properties and a non-zero
\* ReachabilityTimeout, every SetReachabilityState(OK) leaves the one timer
\* armed with the whole timeout ahead; the timer expires only when a whole
\* timeout has passed since the last SetReachabilityState(OK); the callback
\* of an expiry leaves the ReachabilityState property at KO when it reaches
\* ReachabilityWentKo, which it invokes once (when the callback is set), so
\* the invocations are as many as the expiries; with a zero timeout no timer
\* is created or armed and nothing expires.
C26_ReachabilityTimeout ==
    /\ [](/\ stats.timers <= 1
          /\ dev.timer <=> stats.timers = 1
          /\ timer.armed => dev.timer /\ timer.remaining <= dev.ReachabilityTimeout
          /\ dev.ReachabilityTimeout = 0 \/ ~dev.properties
                => ~dev.timer /\ ~timer.armed /\ stats.expiries = 0
          /\ stats.wentKo = IF dev.ReacheabilityTimeoutCB
                            THEN stats.expiries - (IF cb.pc = "idle" THEN 0 ELSE 1)
                            ELSE 0)
    /\ [][/\ Entering("SetReachabilityState") /\ call'.state = "OK"
                /\ dev.properties /\ dev.ReachabilityTimeout # 0
                => timer' = [armed |-> TRUE, remaining |-> dev.ReachabilityTimeout]
          /\ ~timer.armed /\ timer'.armed
                => Entering("SetReachabilityState") /\ call'.state = "OK"
          /\ timer.armed /\ ~timer'.armed
                => /\ stats.sinceOk >= dev.ReachabilityTimeout
                   /\ cb.pc = "idle" /\ cb'.pc = "get"
                   /\ stats'.expiries = stats.expiries + 1
          /\ cb.pc # "wentKo" /\ cb'.pc = "wentKo" => props'.ReachabilityState = "KO"
          /\ stats'.wentKo # stats.wentKo
                => cb.pc = "wentKo" /\ cb'.pc = "idle" /\ stats'.wentKo = stats.wentKo + 1]_vars

\* after an expiry that went KO the device answered again: the property is OK
\* and the same timer is armed again with the whole timeout ahead
C26_Witness ==
    /\ dev.properties /\ dev.ReachabilityTimeout = Timeout /\ dev.ReacheabilityTimeoutCB
    /\ stats.expiries = 1 /\ stats.wentKo = 1 /\ stats.timers = 1
    /\ props.ReachabilityState = "OK"
    /\ timer = [armed |-> TRUE, remaining |-> Timeout]

\* C28: a write of a valid level name to LogLevel sets the logger's level and
\* the callback returns no error; a write of any other value leaves the level
\* as it is and the callback returns an error.
C28_LogLevelWrite ==
    [][Entering("setLogLevel") /\ UNCHANGED <<dev, timer>> =>
          IF ~LogLevel(call'.value).err
          THEN logLevel' = LogLevel(call'.value).level /\ call'.err = ""
          ELSE logLevel' = logLevel /\ call'.err # ""]_vars

\* C29: SetVersion publishes a change of the Version property only when the
\* new version differs from the version the property holds: once
\* SetVersion(v) has published v, a further SetVersion(v) publishes nothing.
C29_SetVersionIdempotent ==
    [][Entering("SetVersion") /\ UNCHANGED <<dev, timer>> /\ dev.properties =>
          (call'.published # <<>> => call'.version # props.Version)]_vars

====
